---- MODULE Spec2Model ----
(***************************************************************************)
(* Model of the lead pipeline of b2b-lead-automation:                      *)
(*   - filter_duplicates and filter_cooldown (src/millemail_pipeline.py)   *)
(*     as operators, exercised by SpecFD and SpecFC on bounded inputs;     *)
(*   - main() of src/millemail_pipeline.py as a state machine (Spec), one  *)
(*     action per step of the run, the external collaborators (scraper,    *)
(*     Hunter, the text generator, the data store) answering               *)
(*     nondeterministically.                                               *)
(* Time is counted in hours; a timestamp string is the record              *)
(* [wall, tz]: the wall-clock reading and the notation of its zone part.   *)
(***************************************************************************)
EXTENDS Integers, Sequences, FiniteSets, TLC

VARIABLES
    \* ---- filter_duplicates harness (SpecFD)
    fd_pc, fd_profiles, fd_existing, fd_result, fd_existing2, fd_result2,
    \* ---- filter_cooldown harness (SpecFC)
    fc_pc, fc_profiles, fc_dates, fc_days, fc_result,
    \* ---- main() of millemail_pipeline.py (Spec)
    pc,                 \* the step main() is at
    stage_log,          \* the stages entered so far, in order
    exit_status,        \* "running", "0", "1", or the exception that left main
    calls,              \* the external collaborators called so far
    env,                \* which credentials the environment holds
    count,              \* args.count
    store,              \* rows of the millemail_prospects table
    store_tz,           \* the notation in which the store returns created_at
    existing_contacts, last_contact_dates,
    kw,                 \* index of the keyword the scrape loop is at
    all_jobs, unique_jobs,
    leads, li,          \* the transformed batch and the enrich loop's index
    enriched_leads, b2c_skipped, no_email_found,
    new_leads, ready_leads,
    gi,                 \* the sequence loop's index
    prospects_with_sequences, inserted,
    \* ---- one call of a method of a collaborator class (SpecSize, ...)
    call_pc,            \* "input", then "returned"
    call_args,          \* the arguments, and the answer the method gets
    call_result         \* what the method returns

fd_vars == <<fd_pc, fd_profiles, fd_existing, fd_result, fd_existing2, fd_result2>>
fc_vars == <<fc_pc, fc_profiles, fc_dates, fc_days, fc_result>>
main_vars == <<pc, stage_log, exit_status, calls, env, count, store, store_tz,
               existing_contacts, last_contact_dates, kw, all_jobs, unique_jobs,
               leads, li, enriched_leads, b2c_skipped, no_email_found,
               new_leads, ready_leads, gi, prospects_with_sequences, inserted>>

call_vars == <<call_pc, call_args, call_result>>

-----------------------------------------------------------------------------
(* Bounds of the harnesses *)

\* longest batch handed to a filter
MaxLen == 2
\* most identity pairs in existing_contacts
MaxExisting == 2
\* most jobs the scraper returns for one keyword
MaxJobs == 1
\* longest batch given to the two filters in a row
MaxBatch == 3

-----------------------------------------------------------------------------
(* Python values *)

\* Python's None; also what dict.get returns for an absent key
None == "<None>"

\* truthiness of a string-or-None value: None and "" are falsy
Truthy(x) == x # None /\ x # ""

\* dict.get(key): the value, or None for an absent key
Get(d, k) == IF k \in DOMAIN d THEN d[k] ELSE None

\* d[key] = value on a dict (a record whose fields are the keys present)
Put(d, k, v) == [x \in DOMAIN d \cup {k} |-> IF x = k THEN v ELSE d[x]]

\* d.get(k, default)
GetOr(d, k, default) == IF k \in DOMAIN d THEN d[k] ELSE default

\* marks a key that a dict does not have
Absent == "<absent>"

\* the dict with the keys that are not marked absent
WithoutAbsent(f) == [k \in {x \in DOMAIN f : f[x] # Absent} |-> f[k]]

\* all sequences over S of length at most n
SeqsUpTo(S, n) == UNION {[1..k -> S] : k \in 0..n}

-----------------------------------------------------------------------------
(* Python strings whose characters matter: a text is the sequence of its   *)
(* characters                                                              *)

UpperCase == <<"A", "B", "C", "D", "E", "F", "G", "H", "I", "J", "K", "L", "M",
               "N", "O", "P", "Q", "R", "S", "T", "U", "V", "W", "X", "Y", "Z",
               "À", "Á", "Â", "Ã", "Ä", "Å", "Æ", "Ç", "È", "É", "Ê", "Ë", "Ì",
               "Í", "Î", "Ï", "Ð", "Ñ", "Ò", "Ó", "Ô", "Õ", "Ö", "Ø", "Ù", "Ú",
               "Û", "Ü", "Ý", "Þ", "Μ">>
LowerCase == <<"a", "b", "c", "d", "e", "f", "g", "h", "i", "j", "k", "l", "m",
               "n", "o", "p", "q", "r", "s", "t", "u", "v", "w", "x", "y", "z",
               "à", "á", "â", "ã", "ä", "å", "æ", "ç", "è", "é", "ê", "ë", "ì",
               "í", "î", "ï", "ð", "ñ", "ò", "ó", "ô", "õ", "ö", "ø", "ù", "ú",
               "û", "ü", "ý", "þ", "μ">>

\* str.lower() of one character
LowerChar(c) ==
    IF \E k \in 1..Len(UpperCase) : UpperCase[k] = c
    THEN LowerCase[CHOOSE k \in 1..Len(UpperCase) : UpperCase[k] = c]
    ELSE c

\* str.upper() of one character: the sharp s becomes two letters and the
\* micro sign the Greek capital mu; the capital of "ÿ" is no character of
\* these texts, so that "ÿ" has no arm
UpperChar(c) ==
    CASE c = "ß" -> "SS"
      [] c = "µ" -> "Μ"
      [] c \notin {"ß", "µ", "ÿ"} ->
            IF \E k \in 1..Len(LowerCase) : LowerCase[k] = c
            THEN UpperCase[CHOOSE k \in 1..Len(LowerCase) : LowerCase[k] = c]
            ELSE c

\* str.upper(): character by character, the sharp s giving two characters
Upper(text) ==
    LET RECURSIVE From(_)
        From(k) ==
            IF k > Len(text) THEN <<>>
            ELSE (IF text[k] = "ß" THEN <<"S", "S">> ELSE <<UpperChar(text[k])>>)
                     \o From(k + 1)
    IN From(1)

\* the characters str.strip() removes, among those up to U+00FF and U+1680
Whitespace == {"\t", "\n", "", "\f", "\r", "", "",
               "", "", " ", "", " ", " "}

\* str.strip(): the text without its leading and trailing whitespace
Strip(text) ==
    LET inked == {k \in 1..Len(text) : text[k] \notin Whitespace}
    IN IF inked = {} THEN <<>>
       ELSE SubSeq(text, CHOOSE k \in inked : \A m \in inked : k <= m,
                         CHOOSE k \in inked : \A m \in inked : k >= m)

\* Python's `part in text` on strings
Contains(text, part) ==
    \E k \in 0..(Len(text) - Len(part)) : SubSeq(text, k + 1, k + Len(part)) = part

-----------------------------------------------------------------------------
(* filter_duplicates *)

\* mutant of IsDuplicate: the presence test on the two fields is lost
IsDuplicateNoPresence(profile, existing) ==
    <<Get(profile, "company_domain"), Get(profile, "email")>> \in existing

\* line 65: the test that makes the loop skip a profile
IsDuplicate(profile, existing) ==
    /\ Truthy(Get(profile, "company_domain"))
    /\ Truthy(Get(profile, "email"))
    /\ <<Get(profile, "company_domain"), Get(profile, "email")>> \in existing

RECURSIVE FilterDuplicatesLoop(_, _, _, _)
\* lines 60-68: the loop from profile i on, filtered being the list so far
FilterDuplicatesLoop(profiles, existing, i, filtered) ==
    IF i > Len(profiles) THEN filtered
    ELSE IF IsDuplicate(profiles[i], existing)
         THEN FilterDuplicatesLoop(profiles, existing, i + 1, filtered)
         ELSE FilterDuplicatesLoop(profiles, existing, i + 1,
                                   Append(filtered, profiles[i]))

\* mutant of FilterDuplicates: the survivors are returned last first
FilterDuplicatesReversed(profiles, existing) ==
    LET filtered == FilterDuplicatesLoop(profiles, existing, 1, <<>>)
    IN [j \in 1..Len(filtered) |-> filtered[Len(filtered) + 1 - j]]

\* filter_duplicates(profiles, existing_contacts)
FilterDuplicates(profiles, existing) ==
    FilterDuplicatesLoop(profiles, existing, 1, <<>>)

\* the identity pairs of a batch, as get_existing would read them
\* back once the batch is stored: only rows with both fields truthy
IdentityPairs(batch) ==
    {<<batch[i].company_domain, batch[i].email>> : i \in
        {j \in 1..Len(batch) : Truthy(batch[j].company_domain) /\ Truthy(batch[j].email)}}

-----------------------------------------------------------------------------
(* filter_cooldown *)

\* timedelta(days=1) in hours
HoursPerDay == 24
\* the default of the cooldown_days parameter, and what main passes
DefaultCooldownDays == 90
\* datetime.now(timezone.utc), in hours since the epoch of the model
Now == 4000

\* the UTC offset, in hours, that a zone notation stands for
TzOffset(tz) == IF tz = "+01:00" THEN 1 ELSE 0

\* last_contact.replace("Z", "+00:00")
ReplaceZ(ts) == IF ts.tz = "Z" THEN [ts EXCEPT !.tz = "+00:00"] ELSE ts

\* datetime.fromisoformat: an aware datetime (an instant) when the string
\* carries an offset, a naive one (a wall-clock reading) when it does not
FromIsoFormat(ts) ==
    IF ts.tz = "naive"
    THEN [aware |-> FALSE, t |-> ts.wall]
    ELSE [aware |-> TRUE, t |-> ts.wall - TzOffset(ts.tz)]

\* mutant of CooldownThreshold: the window is counted forward from now
CooldownThresholdForward(cooldown_days) == Now + cooldown_days * HoursPerDay

\* lines 90-91: now - timedelta(days=cooldown_days)
CooldownThreshold(cooldown_days) == Now - cooldown_days * HoursPerDay

\* last_contact_dates.get(company_domain)
DictGet(d, k) == IF k \in DOMAIN d THEN d[k] ELSE [wall |-> 0, tz |-> "None"]

\* truthiness of what DictGet returns
TsTruthy(ts) == ts.tz # "None"

\* mutant of InCooldown: the boundary instant counts as in cooldown
InCooldownInclusive(last_contact_dt, cooldown_days) ==
    last_contact_dt.t >= CooldownThreshold(cooldown_days)

\* line 106: last_contact_dt > cooldown_threshold, both aware
InCooldown(last_contact_dt, cooldown_days) ==
    last_contact_dt.t > CooldownThreshold(cooldown_days)

RECURSIVE FilterCooldownLoop(_, _, _, _, _)
\* lines 93-110: the loop from profile i on.  The result is the list built,
\* or the TypeError that comparing a naive datetime with the aware threshold
\* raises (line 106), which ends the call.
FilterCooldownLoop(profiles, contact_dates, cooldown_days, i, filtered) ==
    IF i > Len(profiles) THEN [exc |-> "none", filtered |-> filtered]
    ELSE LET profile == profiles[i]
             company_domain == Get(profile, "company_domain")
             last_contact == DictGet(contact_dates, company_domain)
             last_contact_dt == FromIsoFormat(ReplaceZ(last_contact))
             keep == FilterCooldownLoop(profiles, contact_dates, cooldown_days,
                                        i + 1, Append(filtered, profile))
             skip == FilterCooldownLoop(profiles, contact_dates, cooldown_days,
                                        i + 1, filtered)
         IN IF ~Truthy(company_domain) THEN keep
            ELSE IF ~TsTruthy(last_contact) THEN keep
            ELSE IF ~last_contact_dt.aware
                 THEN [exc |-> "TypeError", filtered |-> <<>>]
            ELSE IF InCooldown(last_contact_dt, cooldown_days) THEN skip
            ELSE keep

\* filter_cooldown(profiles, last_contact_dates, cooldown_days)
FilterCooldown(profiles, contact_dates, cooldown_days) ==
    FilterCooldownLoop(profiles, contact_dates, cooldown_days, 1, <<>>)

-----------------------------------------------------------------------------
(* Harness of filter_duplicates: a batch and a set of stored identity      *)
(* pairs are drawn, the filter is applied, the pairs of its output are     *)
(* added to the set and the filter is applied to the batch again.          *)

FDDomains == {None, "", "a.com", "A.com"}
FDEmails == {None, "x@a.com"}
FDProfiles == [company_domain : FDDomains, email : FDEmails]
FDPairs == FDDomains \X FDEmails

FD_Init ==
    /\ fd_pc = "input"
    /\ fd_profiles \in SeqsUpTo(FDProfiles, MaxLen)
    /\ fd_existing \in {S \in SUBSET FDPairs : Cardinality(S) <= MaxExisting}
    /\ fd_result = <<>>
    /\ fd_existing2 = {}
    /\ fd_result2 = <<>>

FD_Idle ==
    /\ fd_pc = "off"
    /\ fd_profiles = <<>>
    /\ fd_existing = {}
    /\ fd_result = <<>>
    /\ fd_existing2 = {}
    /\ fd_result2 = <<>>

\* new_leads = filter_duplicates(profiles, existing_contacts)
FD_Apply ==
    /\ fd_pc = "input"
    /\ fd_result' = FilterDuplicates(fd_profiles, fd_existing)
    /\ fd_pc' = "filtered"
    /\ UNCHANGED <<fd_profiles, fd_existing, fd_existing2, fd_result2>>

\* the output is stored, the stored pairs are read again and the same batch
\* is filtered a second time
FD_ApplyAgain ==
    /\ fd_pc = "filtered"
    /\ fd_existing2' = fd_existing \cup IdentityPairs(fd_result)
    /\ fd_result2' = FilterDuplicates(fd_profiles, fd_existing \cup IdentityPairs(fd_result))
    /\ fd_pc' = "refiltered"
    /\ UNCHANGED <<fd_profiles, fd_existing, fd_result>>

-----------------------------------------------------------------------------
(* Harness of filter_cooldown: a batch, a map of last-contact timestamps   *)
(* and a number of days are drawn and the filter is applied.               *)

\* the values of cooldown_days tried
CooldownDayChoices == {1, DefaultCooldownDays}
\* the notations of a stored timestamp's zone part
Notations == {"+00:00", "Z", "+01:00", "naive"}
\* wall-clock readings one hour around each threshold
Walls == {CooldownThreshold(d) + k : d \in CooldownDayChoices, k \in {-1, 0, 1}}
Timestamps == [wall : Walls, tz : Notations] \cup {[wall |-> 0, tz |-> "None"]}
FCDomains == {"a.com", "b.com"}
FCProfiles == [company_domain : FCDomains \cup {None}, email : {"x@a.com"}]
\* the maps from some of the domains to a timestamp
DateMaps == UNION {[D -> Timestamps] : D \in SUBSET FCDomains}

FC_Init ==
    /\ fc_pc = "input"
    /\ fc_profiles \in SeqsUpTo(FCProfiles, MaxLen)
    /\ fc_dates \in DateMaps
    /\ fc_days \in CooldownDayChoices
    /\ fc_result = [exc |-> "none", filtered |-> <<>>]

FC_Idle ==
    /\ fc_pc = "off"
    /\ fc_profiles = <<>>
    /\ fc_dates = <<>>
    /\ fc_days = DefaultCooldownDays
    /\ fc_result = [exc |-> "none", filtered |-> <<>>]

\* ready_leads = filter_cooldown(profiles, last_contact_dates, cooldown_days)
FC_Apply ==
    /\ fc_pc = "input"
    /\ fc_result' = FilterCooldown(fc_profiles, fc_dates, fc_days)
    /\ fc_pc' = "filtered"
    /\ UNCHANGED <<fc_profiles, fc_dates, fc_days>>

-----------------------------------------------------------------------------
(* Harness of the two filters in a row, as lines 301 and 308 of main()     *)
(* call them: a batch of leads carrying contact data is given to           *)
(* filter_duplicates, and its output to filter_cooldown.                   *)

FRProfiles == [company_domain : FCDomains \cup {None}, email : {"x@a.com"},
               first_name : {"John", "Jane"}]
\* a contact of yesterday, one of 120 days ago, and one written without zone
FRTimestamps == {[wall |-> Now - HoursPerDay, tz |-> "+00:00"],
                 [wall |-> Now - 120 * HoursPerDay, tz |-> "Z"],
                 [wall |-> Now - HoursPerDay, tz |-> "naive"]}
FRDateMaps == UNION {[D -> FRTimestamps] : D \in SUBSET FCDomains}

FR_Init ==
    /\ fd_pc = "input"
    /\ fd_profiles \in SeqsUpTo(FRProfiles, MaxBatch)
    /\ fd_existing \in {S \in SUBSET (FCDomains \X {"x@a.com"}) : Cardinality(S) <= MaxExisting}
    /\ fd_result = <<>>
    /\ fd_existing2 = {}
    /\ fd_result2 = <<>>
    /\ fc_pc = "wait"
    /\ fc_profiles = <<>>
    /\ fc_dates \in FRDateMaps
    /\ fc_days = DefaultCooldownDays
    /\ fc_result = [exc |-> "none", filtered |-> <<>>]

\* ready_leads = filter_cooldown(new_leads, last_contact_dates, cooldown_days)
FR_Cooldown ==
    /\ fd_pc = "filtered"
    /\ fc_pc = "wait"
    /\ fc_profiles' = fd_result
    /\ fc_result' = FilterCooldown(fd_result, fc_dates, fc_days)
    /\ fc_pc' = "filtered"
    /\ UNCHANGED <<fc_dates, fc_days>>

-----------------------------------------------------------------------------
(* The collaborators of main(): what they may answer *)

\* args.keywords of the run
Keywords == <<"VP Sales", "CRO">>
\* the values of args.count tried
CountChoices == {0, 1}
\* company names the scraper may return for a keyword; "Acme" and "Acme SAS"
\* are two names of one company
CompanyNames(keyword) ==
    IF keyword = "CRO" THEN {"Acme", "Acme SAS"} ELSE {"Acme", "Carrefour"}

\* the items of one keyword's dataset: at most MaxJobs jobs, none when the
\* search finds nothing or the scraper call fails
ScrapeReplies(keyword) ==
    SeqsUpTo({[company_name |-> n, job_title |-> keyword] : n \in CompanyNames(keyword)},
             MaxJobs)

\* Hunter's directory: company name -> domain
HunterDomainOf(name) ==
    CASE name \in {"Acme", "Acme SAS"} -> "acme.com"
      [] name = "Carrefour" -> "carrefour.fr"
      [] OTHER -> None

\* Hunter's company data for a domain
HunterCompanyOf(domain) ==
    CASE domain = "carrefour.fr" ->
            [employees |-> "10K-50K", industry |-> "Retail", sector |-> "",
             description |-> "Hypermarkets"]
      [] OTHER ->
            [employees |-> "11-50", industry |-> "", sector |-> "Software",
             description |-> "Sales software for businesses"]

\* Hunter's answers to GET /domain-search?company=...
DomainReplies(name) ==
    IF env.HUNTER_API_KEY
    THEN {[status |-> 200, domain |-> HunterDomainOf(name)], [status |-> 500, domain |-> None]}
    ELSE {[status |-> 401, domain |-> None]}

\* Hunter's answers to GET /companies/find: the company's data, a record
\* without firmographic data, or a failure
CompanyReplies(domain) ==
    IF env.HUNTER_API_KEY
    THEN {[status |-> 200] @@ HunterCompanyOf(domain),
          [status |-> 200, employees |-> None, industry |-> "", sector |-> "",
           description |-> ""],
          [status |-> 500, employees |-> None, industry |-> "", sector |-> "",
           description |-> ""]}
    ELSE {[status |-> 401, employees |-> None, industry |-> "", sector |-> "",
           description |-> ""]}

\* the text generator's answers to the B2B/B2C prompt: a one-word reply, or
\* an exception raised by the call
AIReplies ==
    IF env.ANTHROPIC_API_KEY
    THEN {[raised |-> FALSE, text |-> <<"B", "2", "B">>],
          [raised |-> FALSE, text |-> <<"B", "2", "C">>],
          [raised |-> FALSE, text |-> <<"b", "2", "c">>],
          [raised |-> TRUE, text |-> <<>>]}
    ELSE {[raised |-> TRUE, text |-> <<>>]}

\* the senior contact Hunter knows at a domain
HunterContactOf(domain) ==
    IF domain = "carrefour.fr" THEN "dg@carrefour.fr" ELSE "ceo@acme.com"

\* Hunter's answers to GET /domain-search?domain=...: one senior contact, a
\* contact without address, no contact, or a failure
ContactReplies(domain) ==
    IF env.HUNTER_API_KEY
    THEN {[status |-> 200, emails |-> <<[first_name |-> "Ann", last_name |-> "Lee",
                                         value |-> HunterContactOf(domain),
                                         position |-> "CEO"]>>],
          [status |-> 200, emails |-> <<[first_name |-> "Ann", last_name |-> "Lee",
                                         value |-> None, position |-> "CEO"]>>],
          [status |-> 200, emails |-> <<>>],
          [status |-> 500, emails |-> <<>>]}
    ELSE {[status |-> 401, emails |-> <<>>]}

\* Hunter's answers to GET /email-verifier: acme.com accepts every address,
\* so that its mailboxes get accept_all and a score; the mailboxes of the
\* other domains are told valid or invalid
VerifierReplies(email) ==
    IF ~env.HUNTER_API_KEY
    THEN {[status_code |-> 401, status |-> "unknown", score |-> 0]}
    ELSE IF email = "ceo@acme.com"
    THEN {[status_code |-> 200, status |-> "accept_all", score |-> 80],
          [status_code |-> 200, status |-> "accept_all", score |-> 79],
          [status_code |-> 500, status |-> "unknown", score |-> 0]}
    ELSE {[status_code |-> 200, status |-> "valid", score |-> 95],
          [status_code |-> 200, status |-> "invalid", score |-> 10],
          [status_code |-> 500, status |-> "unknown", score |-> 0]}

-----------------------------------------------------------------------------
(* EmailEnricher *)

\* find_company_domain(company_name), given Hunter's answer
FindCompanyDomain(company_name, reply) ==
    IF ~Truthy(company_name) THEN None
    ELSE IF reply.status # 200 THEN None
    ELSE IF Truthy(reply.domain) THEN reply.domain
    ELSE None

\* mutant of LARGE_COMPANY_RANGES: the threshold one range lower
LARGE_COMPANY_RANGES_From201 ==
    {"201-500", "501-1K", "1K-5K", "5K-10K", "10K-50K", "50K-100K", "100K+",
     "501-1000", "1001-5000", "5001-10000", "10001+"}

LARGE_COMPANY_RANGES ==
    {"501-1K", "1K-5K", "5K-10K", "10K-50K", "50K-100K", "100K+",
     "501-1000", "1001-5000", "5001-10000", "10001+"}

\* Python's `a or b` on strings
Or(a, b) == IF Truthy(a) THEN a ELSE b

\* the status that stands for a request that raised instead of answering
NoResponse == 0

\* get_company_size(domain), given Hunter's answer
GetCompanySize(domain, reply) ==
    IF ~Truthy(domain)
    THEN [employee_range |-> None, is_large_company |-> FALSE, is_b2c |-> FALSE,
          industry |-> None]
    ELSE IF reply.status = NoResponse
    THEN [employee_range |-> None, is_large_company |-> FALSE, industry |-> None,
          description |-> None]
    ELSE IF reply.status # 200
    THEN [employee_range |-> None, is_large_company |-> FALSE, is_b2c |-> FALSE,
          industry |-> None]
    ELSE [employee_range |-> reply.employees,
          is_large_company |-> reply.employees \in LARGE_COMPANY_RANGES,
          industry |-> Or(reply.industry, Or(reply.sector, None)),
          description |-> reply.description]

\* mutant of StripUpper: the reply is tested as it is written
StripOnly(text) == Strip(text)

\* message.content[0].text.strip().upper()
StripUpper(text) == Upper(Strip(text))

\* line 128: the classifier is asked only when there is something to go on
HasCompanyData(industry, description) == Truthy(industry) \/ Truthy(description)

\* is_b2c_company(company_name, industry, description), given the text
\* generator's answer; the reason of a failure is its prefix "Error"
IsB2CCompany(company_name, industry, description, reply) ==
    IF ~HasCompanyData(industry, description)
    THEN [is_b2c |-> FALSE, reason |-> "No data available"]
    ELSE IF reply.raised THEN [is_b2c |-> FALSE, reason |-> "Error"]
    ELSE [is_b2c |-> Contains(StripUpper(reply.text), <<"B", "2", "C">>),
          reason |-> "AI classification"]

-----------------------------------------------------------------------------
(* Harness of is_b2c_company: the company data and an answer of the text   *)
(* generator are drawn and the method is called.                           *)

\* the replies tried, and a call that raises (time-out, reply without text)
B2CTexts ==
    {<<"B", "2", "C">>,
     <<"B", "2", "B">>,
     <<"b", "2", "c">>,
     <<" ", "B", "2", "C", "\n">>,
     <<"T", "h", "i", "s", " ", "i", "s", " ", "B", "2", "C", ".">>,
     <<"B", "2", "B", ",", " ", "n", "o", "t", " ", "b", "2", "c">>,
     <<"B", "2">>,
     <<"u", "n", "s", "u", "r", "e">>,
     <<"\t", "b", "2", "c", "\r", "\n">>,
     <<"s", "o", "c", "i", "é", "t", "é", " ", "b", "2", "c">>,
     <<>>}
B2CReplies == [raised : {FALSE}, text : B2CTexts] \cup {[raised |-> TRUE, text |-> <<>>]}

BC_Init ==
    /\ call_pc = "input"
    /\ call_args \in [company_name : {"Acme"}, industry : {None, "", "Retail"},
                       description : {None, "", "Shops"}, reply : B2CReplies]
    /\ call_result = <<>>

\* b2c_check = enricher.is_b2c_company(company_name, industry, description);
\* asked records whether messages.create was called
BC_Call ==
    /\ call_pc = "input"
    /\ call_result' =
          [ret |-> IsB2CCompany(call_args.company_name, call_args.industry,
                                call_args.description, call_args.reply),
           asked |-> HasCompanyData(call_args.industry, call_args.description)]
    /\ call_pc' = "returned"
    /\ UNCHANGED call_args

-----------------------------------------------------------------------------
(* EmailEnricher, continued *)

\* find_decision_maker(company_domain), given Hunter's answer; found is
\* FALSE where the method returns None
FindDecisionMaker(company_domain, reply) ==
    IF ~Truthy(company_domain) \/ reply.status # 200 \/ Len(reply.emails) = 0
    THEN [found |-> FALSE]
    ELSE [found |-> TRUE,
          first_name |-> reply.emails[1].first_name,
          last_name |-> reply.emails[1].last_name,
          email |-> reply.emails[1].value,
          title |-> reply.emails[1].position]

\* verify_email(email), given Hunter's answer
\* mutant of VerifyEmail: accept_all is verified whatever the score
VerifyEmailAnyScore(email, reply) ==
    IF ~Truthy(email) THEN [status |-> "invalid", score |-> 0, verified |-> FALSE]
    ELSE IF reply.status_code # 200
         THEN [status |-> "unknown", score |-> 0, verified |-> FALSE]
    ELSE [status |-> reply.status, score |-> reply.score,
          verified |-> reply.status \in {"valid", "accept_all"}]

VerifyEmail(email, reply) ==
    IF ~Truthy(email) THEN [status |-> "invalid", score |-> 0, verified |-> FALSE]
    ELSE IF reply.status_code # 200
         THEN [status |-> "unknown", score |-> 0, verified |-> FALSE]
    ELSE [status |-> reply.status, score |-> reply.score,
          verified |-> (reply.status = "valid"
                          \/ (reply.status = "accept_all" /\ reply.score >= 80))]

-----------------------------------------------------------------------------
(* Harness of get_company_size: a domain and an answer of Hunter are drawn *)
(* and the method is called.                                               *)

\* the values of data.metrics.employees tried: the ranges Hunter documents,
\* other spellings, the empty string, and None for an absent value
SizeTokens ==
    LARGE_COMPANY_RANGES \cup
    {"1-10", "11-50", "51-200", "201-500", "500+", "501-1k", "1000-5000", "", None}
SizeDomains == {None, "", "acme.com"}
SizeStatuses == {200, 404, 500, NoResponse}
SizeReplies == [status : SizeStatuses, employees : SizeTokens,
                industry : {"", "Software"}, sector : {""}, description : {""}]

SZ_Init ==
    /\ call_pc = "input"
    /\ call_args \in [domain : SizeDomains, reply : SizeReplies]
    /\ call_result = <<>>

\* size_info = enricher.get_company_size(domain)
SZ_Call ==
    /\ call_pc = "input"
    /\ call_result' = GetCompanySize(call_args.domain, call_args.reply)
    /\ call_pc' = "returned"
    /\ UNCHANGED call_args

-----------------------------------------------------------------------------
(* MilleMailSupabaseClient *)

\* created_at of a stored row, as the store returns it
CreatedAt(row) == [wall |-> row.created_at, tz |-> store_tz]

\* get_existing_contacts(): the (domain, email) pairs of the rows having
\* both, or the empty set when the query fails
GetExistingContacts(rows, ok) ==
    IF ~ok THEN {}
    ELSE {<<r.company_domain, r.email>> :
             r \in {x \in rows : Truthy(x.company_domain) /\ Truthy(x.email)}}

contacted_statuses == {"sent", "replied", "interested", "bounced", "not_interested"}

\* get_last_contact_dates(): for each domain the created_at of the first row
\* in descending created_at order among the rows with a contacted status, or
\* the empty dict when the query fails
LastContactsAmong(rows, statuses, ok) ==
    LET contacted == {r \in rows : r.status \in statuses
                                      /\ Truthy(r.company_domain)}
        domains == {r.company_domain : r \in contacted}
        first(d) == CHOOSE r \in contacted :
                        /\ r.company_domain = d
                        /\ \A o \in contacted :
                              o.company_domain = d => o.created_at <= r.created_at
    IN IF ~ok THEN <<>> ELSE [d \in domains |-> CreatedAt(first(d))]

\* get_last_contact_dates() of MilleMailSupabaseClient
GetLastContactDates(rows, ok) == LastContactsAmong(rows, contacted_statuses, ok)

\* contacted_statuses of SupabaseClient.get_last_contact_dates
\* (supabase_client.py 143-149)
lead_contacted_statuses ==
    {"contacted", "replied", "interested", "bounced", "not_interested"}

\* get_last_contact_dates() of SupabaseClient
GetLeadLastContactDates(rows, ok) == LastContactsAmong(rows, lead_contacted_statuses, ok)

\* the UTC offsets, in hours, of the zones the process is run in: UTC and
\* Europe/Paris
LocalOffsets == {0, 1}

\* datetime.now(): the wall clock of the process's zone, naive
LocalNow(utcoffset) == [wall |-> Now + utcoffset, tz |-> "naive"]

\* lines 86-90 of insert_prospects: the defaults added to a prospect, in a
\* process whose zone has the given offset
WithDefaults(prospect, utcoffset) ==
    LET p1 == IF "created_at" \in DOMAIN prospect THEN prospect
              ELSE Put(prospect, "created_at", LocalNow(utcoffset))
    IN IF "status" \in DOMAIN p1 THEN p1 ELSE Put(p1, "status", "ready")

\* the row the store keeps of an inserted prospect
RowOf(p) == [company_domain |-> Get(p, "company_domain"), email |-> Get(p, "email"),
             status |-> p.status, created_at |-> p.created_at.wall]

-----------------------------------------------------------------------------
(* Personalizer *)

\* the keys of SEQUENCES in generate_millemail_sequence
Versions == {"version_a", "version_b", "version_c", "version_d"}
\* random.choice(list(SEQUENCES.keys())): any of the keys
VersionChoices == Versions

SubjectLine(v) ==
    CASE v = "version_a" -> "infra + deals perdus?"
      [] v = "version_b" -> "infra + leads auto?"
      [] v = "version_c" -> "95% inbox rate?"
      [] OTHER -> "lemlist ou instantly?"

\* generate_millemail_sequence(lead), version being random.choice's pick;
\* an email text is named by its version and field
GenerateMillemailSequence(lead, v) ==
    [subject_line |-> SubjectLine(v),
     email_1 |-> <<Get(lead, "first_name"), v, "email_1">>,
     email_1_ps |-> "",
     email_2 |-> <<v, "email_2">>,
     email_3 |-> <<v, "email_3">>]

-----------------------------------------------------------------------------
(* LinkedInProfileScraper *)

\* A company name is the sequence of its characters, so that lower() and the
\* substring test `corp in company_lower` are computed character by character.
\* company_name.lower() is Lower.

\* BIG_CORPORATES_FALLBACK, each entry as its characters
BIG_CORPORATES_FALLBACK ==
    {
     <<"a", "d", "i", "d", "a", "s">>,
     <<"a", "i", "r", " ", "f", "r", "a", "n", "c", "e">>,
     <<"a", "i", "r", "b", "u", "s">>,
     <<"a", "l", "l", "i", "a", "n", "z">>,
     <<"a", "m", "a", "z", "o", "n">>,
     <<"a", "p", "p", "l", "e">>,
     <<"a", "u", "c", "h", "a", "n">>,
     <<"a", "u", "d", "i">>,
     <<"a", "x", "a">>,
     <<"b", "m", "w">>,
     <<"b", "n", "p", " ", "p", "a", "r", "i", "b", "a", "s">>,
     <<"b", "o", "u", "y", "g", "u", "e", "s">>,
     <<"c", "a", "p", "g", "e", "m", "i", "n", "i">>,
     <<"c", "a", "r", "r", "e", "f", "o", "u", "r">>,
     <<"c", "a", "s", "i", "n", "o">>,
     <<"c", "i", "t", "r", "o", "ë", "n">>,
     <<"c", "l", "o", "u", "d", "e", "r", "a">>,
     <<"c", "o", "c", "a", "-", "c", "o", "l", "a">>,
     <<"c", "r", "é", "d", "i", "t", " ", "a", "g", "r", "i", "c", "o", "l", "e">>,
     <<"d", "a", "n", "o", "n", "e">>,
     <<"d", "a", "r", "t", "y">>,
     <<"d", "e", "c", "a", "t", "h", "l", "o", "n">>,
     <<"d", "i", "a", "g", "e", "o">>,
     <<"e", "d", "f">>,
     <<"e", "n", "g", "i", "e">>,
     <<"f", "a", "c", "e", "b", "o", "o", "k">>,
     <<"f", "n", "a", "c">>,
     <<"g", "o", "o", "g", "l", "e">>,
     <<"h", "e", "w", "l", "e", "t", "t", " ", "p", "a", "c", "k", "a", "r", "d">>,
     <<"h", "p", "e">>,
     <<"i", "b", "m">>,
     <<"i", "n", "t", "e", "r", "m", "a", "r", "c", "h", "é">>,
     <<"j", "l", "l">>,
     <<"l", "'", "o", "r", "é", "a", "l">>,
     <<"l", "a", "c", "t", "a", "l", "i", "s">>,
     <<"l", "e", "c", "l", "e", "r", "c">>,
     <<"l", "e", "g", "r", "a", "n", "d">>,
     <<"l", "v", "m", "h">>,
     <<"m", "e", "r", "c", "e", "d", "e", "s">>,
     <<"m", "e", "t", "a">>,
     <<"m", "i", "c", "h", "e", "l", "i", "n">>,
     <<"m", "i", "c", "r", "o", "s", "o", "f", "t">>,
     <<"m", "o", "n", "o", "p", "r", "i", "x">>,
     <<"n", "i", "k", "e">>,
     <<"n", "i", "s", "s", "a", "n">>,
     <<"o", "r", "a", "c", "l", "e">>,
     <<"o", "r", "a", "n", "g", "e">>,
     <<"p", "e", "r", "n", "o", "d", " ", "r", "i", "c", "a", "r", "d">>,
     <<"p", "e", "u", "g", "e", "o", "t">>,
     <<"p", "u", "m", "a">>,
     <<"r", "e", "n", "a", "u", "l", "t">>,
     <<"s", "a", "f", "r", "a", "n">>,
     <<"s", "a", "i", "n", "t", "-", "g", "o", "b", "a", "i", "n">>,
     <<"s", "a", "l", "e", "s", "f", "o", "r", "c", "e">>,
     <<"s", "a", "p">>,
     <<"s", "c", "h", "n", "e", "i", "d", "e", "r", " ", "e", "l", "e", "c", "t", "r", "i", "c">>,
     <<"s", "e", "r", "v", "i", "c", "e", "n", "o", "w">>,
     <<"s", "l", "a", "c", "k">>,
     <<"s", "n", "o", "w", "f", "l", "a", "k", "e">>,
     <<"s", "o", "c", "i", "é", "t", "é", " ", "g", "é", "n", "é", "r", "a", "l", "e">>,
     <<"s", "t", "r", "i", "p", "e">>,
     <<"s", "y", "s", "t", "è", "m", "e", " ", "u">>,
     <<"t", "h", "a", "l", "e", "s">>,
     <<"t", "o", "t", "a", "l">>,
     <<"t", "o", "y", "o", "t", "a">>,
     <<"u", "i", "p", "a", "t", "h">>,
     <<"v", "e", "o", "l", "i", "a">>,
     <<"v", "i", "n", "c", "i">>,
     <<"v", "o", "l", "k", "s", "w", "a", "g", "e", "n">>,
     <<"w", "o", "r", "l", "d", "l", "i", "n", "e">>
    }

\* mutant of Lower: the name is compared as it is written
LowerNot(company_name) == company_name

\* company_name.lower()
Lower(company_name) == [k \in 1..Len(company_name) |-> LowerChar(company_name[k])]

\* what stands for None where a name is a sequence of characters
NoChars == <<None>>

\* is_big_corporate(company_name); company_name is None or a sequence of
\* characters
IsBigCorporate(company_name) ==
    IF company_name = NoChars \/ company_name = <<>> THEN FALSE
    ELSE LET company_lower == Lower(company_name)
         IN \E corp \in BIG_CORPORATES_FALLBACK : Contains(company_lower, corp)

\* the characters of the company names the scraper of main() returns
Chars(name) ==
    CASE name = "Acme" -> <<"A", "c", "m", "e">>
      [] name = "Acme SAS" -> <<"A", "c", "m", "e", " ", "S", "A", "S">>
      [] name = "Carrefour" -> <<"C", "a", "r", "r", "e", "f", "o", "u", "r">>
      [] name = "" -> <<>>
      [] OTHER -> NoChars

\* marks a currentCompany dict that has no name
NoName == "<no name>"

\* profile.get("currentCompany", {}).get("name", ""); the value of
\* currentCompany is the name it holds, or NoName
CurrentCompanyName(profile) ==
    IF "currentCompany" \notin DOMAIN profile THEN ""
    ELSE IF profile.currentCompany = NoName THEN ""
    ELSE profile.currentCompany

\* lines 220-236 of transform_for_pipeline: the lead made of one profile
ProfileToLead(profile) ==
    [company_name |-> Or(Get(profile, "companyName"), CurrentCompanyName(profile)),
     company_domain |-> None,
     job_title |-> Or(Get(profile, "headline"), GetOr(profile, "jobTitle", "")),
     job_url |-> Or(Get(profile, "profileUrl"), GetOr(profile, "publicIdentifier", "")),
     first_name |-> GetOr(profile, "firstName", ""),
     last_name |-> GetOr(profile, "lastName", ""),
     linkedin_url |-> GetOr(profile, "profileUrl", ""),
     location |-> Or(Get(profile, "geoLocationName"), GetOr(profile, "geoCountryName", "")),
     source |-> "linkedin_profile_scraper",
     source_keyword |-> "VP Sales"]

-----------------------------------------------------------------------------
(* Harness of is_big_corporate: a company name is drawn and the method is  *)
(* called.                                                                 *)

\* names are made of a prefix, a core and a suffix
BrandPrefixes ==
    {<<>>,
     <<"G", "r", "o", "u", "p", "e", " ">>,
     <<"T", "h", "e", " ">>}
BrandCores ==
    {<<"C", "a", "r", "r", "e", "f", "o", "u", "r">>,
     <<"C", "A", "R", "R", "E", "F", "O", "U", "R">>,
     <<"c", "a", "r", "r", "e", "f", "o", "u", "r">>,
     <<"C", "a", "r", "r", "e", "f", "o", "u">>,
     <<"A", "c", "m", "e">>,
     <<"S", "A", "P">>,
     <<"S", "a", "p", "i", "e", "n", "t">>,
     <<"E", "d", "f">>,
     <<"E", ".", "D", ".", "F">>,
     <<"C", "o", "c", "a", "-", "C", "o", "l", "a">>,
     <<"C", "o", "c", "a", " ", "C", "o", "l", "a">>,
     <<"C", "i", "t", "r", "o", "ë", "n">>,
     <<"C", "I", "T", "R", "O", "Ë", "N">>,
     <<"L", "'", "O", "R", "É", "A", "L">>}
BrandSuffixes ==
    {<<>>,
     <<" ", "F", "r", "a", "n", "c", "e">>}
\* the names tried, with the empty name and None
BrandNames ==
    {a \o b \o c : a \in BrandPrefixes, b \in BrandCores, c \in BrandSuffixes}
        \cup {<<>>, NoChars}

BR_Init ==
    /\ call_pc = "input"
    /\ call_args \in [company_name : BrandNames]
    /\ call_result = <<>>

\* self.is_big_corporate(company_name)
BR_Call ==
    /\ call_pc = "input"
    /\ call_result' = IsBigCorporate(call_args.company_name)
    /\ call_pc' = "returned"
    /\ UNCHANGED call_args

-----------------------------------------------------------------------------
(* CampaignManager *)

\* the keys of custom_field_mappings, each mapped to itself
custom_field_mappings == {"subject_line", "email_1", "email_1_ps", "email_2", "email_3"}

\* lines 119-122: the custom_fields that _transform_lead builds out of the
\* fields named in kept
CustomFields(lead, kept) == [k \in kept |-> lead[k]]

\* mutant of TransformLead: only None is left out
TransformLeadKeepEmpty(lead) ==
    LET kept == {f \in custom_field_mappings : Get(lead, f) # None}
    IN [email |-> GetOr(lead, "email", ""),
        first_name |-> GetOr(lead, "first_name", ""),
        last_name |-> GetOr(lead, "last_name", ""),
        company_name |-> GetOr(lead, "company_name", ""),
        custom_fields |-> CustomFields(lead, kept)]

\* _transform_lead(lead)
TransformLead(lead) ==
    [email |-> GetOr(lead, "email", ""),
     first_name |-> GetOr(lead, "first_name", ""),
     last_name |-> GetOr(lead, "last_name", ""),
     company_name |-> GetOr(lead, "company_name", ""),
     custom_fields |->
         CustomFields(lead, {f \in custom_field_mappings : Truthy(Get(lead, f))})]

-----------------------------------------------------------------------------
(* Harness of _transform_lead: a stored prospect is drawn and transformed  *)

\* the values of a sequence field: absent, None, empty, or a text
SequenceValues == {Absent, None, "", "text"}

\* the stored prospects tried
Prospects ==
    {WithoutAbsent(f) :
        f \in [email : {Absent, None, "ceo@acme.com"}, first_name : {Absent, "Ann"},
               last_name : {"Lee"}, company_name : {"Acme"}, status : {"ready"},
               subject_line : SequenceValues, email_1 : SequenceValues,
               email_1_ps : SequenceValues, email_2 : SequenceValues,
               email_3 : SequenceValues]}

TL_Init ==
    /\ call_pc = "input"
    /\ call_args \in [lead : Prospects]
    /\ call_result = <<>>

\* smartlead_lead = self._transform_lead(lead)
TL_Call ==
    /\ call_pc = "input"
    /\ call_result' = TransformLead(call_args.lead)
    /\ call_pc' = "returned"
    /\ UNCHANGED call_args

-----------------------------------------------------------------------------
(* CampaignManager.add_leads_to_campaign (campaign_manager.py 24-97)      *)

\* line 43
batch_size == 100

\* the largest number of requests one call is followed through
MaxCalls == 2

\* a value of the JSON object Smartlead answers with; JsonAbsent marks a key
\* the object does not have
JsonAbsent == [type |-> "absent", value |-> 0]
JsonNull == [type |-> "null", value |-> 0]
JsonInt(n) == [type |-> "int", value |-> n]

JsonObject(f) == [k \in {x \in DOMAIN f : f[x].type # "absent"} |-> f[k]]

\* result.get(key, 0)
ResultGet(result, key) == IF key \in DOMAIN result THEN result[key] ELSE JsonInt(0)

SmartleadBodies ==
    {JsonObject(f) :
        f \in [total_leads : {JsonAbsent, JsonNull, JsonInt(0), JsonInt(2)},
               already_added_to_campaign : {JsonAbsent, JsonNull, JsonInt(1)},
               invalid_email_count : {JsonAbsent, JsonNull, JsonInt(1)}]}

\* what one requests.post can end in: an exception of the transport, a
\* status raise_for_status() raises on, a 2xx body that is no JSON, a 2xx
\* JSON array, a 2xx JSON object
SmartleadReplies ==
    [kind : {"exception", "http_error", "not_json", "json_array"}, body : {<<>>}]
        \cup [kind : {"json_object"}, body : SmartleadBodies]

\* lines 59-95: the statistics after one batch and its reply, and whether
\* the batch ended in one of the two except clauses
AfterBatch(total_stats, batch, reply) ==
    IF reply.kind \in {"exception", "http_error", "not_json"}
    THEN [total_stats |-> total_stats, failed |-> TRUE]
    ELSE LET counted == [total_stats EXCEPT !.total = @ + Len(batch)]
             leads_added == ResultGet(reply.body, "total_leads")
             duplicates == ResultGet(reply.body, "already_added_to_campaign")
             invalid == ResultGet(reply.body, "invalid_email_count")
         IN  IF reply.kind = "json_array" \/ leads_added.type # "int"
             THEN [total_stats |-> counted, failed |-> TRUE]
             ELSE LET with_added == [counted EXCEPT !.added = @ + leads_added.value]
                  IN  IF duplicates.type # "int"
                      THEN [total_stats |-> with_added, failed |-> TRUE]
                      ELSE LET with_duplicates ==
                                   [with_added EXCEPT !.duplicates = @ + duplicates.value]
                           IN  IF invalid.type # "int"
                               THEN [total_stats |-> with_duplicates, failed |-> TRUE]
                               ELSE [total_stats |->
                                         [with_duplicates EXCEPT !.invalid = @ + invalid.value],
                                     failed |-> FALSE]

NoStats == [total |-> 0, added |-> 0, duplicates |-> 0, invalid |-> 0]

\* smartlead_leads[i : i + batch_size]
Slice(list, i, size) ==
    SubSeq(list, i + 1, IF i + size < Len(list) THEN i + size ELSE Len(list))

LeadsOfCount(n) ==
    IF n = 0 THEN <<>> ELSE [k \in 1..n |-> [email |-> ToString(k), company_name |-> "Acme"]]

LeadCounts ==
    {0, 1, batch_size - 1}
        \cup {k * batch_size : k \in 1..MaxCalls}
        \cup {k * batch_size + 1 : k \in 1..(MaxCalls - 1)}

AL_Init ==
    /\ call_pc = "input"
    /\ call_args \in [leads : {LeadsOfCount(n) : n \in LeadCounts},
                      ignore_duplicates : BOOLEAN]
    /\ call_result = <<>>

\* lines 28-44
AL_Start ==
    /\ call_pc = "input"
    /\ IF call_args.leads = <<>>
       THEN /\ call_result' = [i |-> 0, smartlead_leads |-> <<>>,
                               total_stats |-> NoStats, calls |-> <<>>]
            /\ call_pc' = "returned"
       ELSE /\ call_result' =
                   [i |-> 0,
                    smartlead_leads |->
                        [k \in 1..Len(call_args.leads) |-> TransformLead(call_args.leads[k])],
                    total_stats |-> NoStats,
                    calls |-> <<>>]
            /\ call_pc' = "loop"
    /\ UNCHANGED call_args

\* lines 46-95: one turn of the loop; calls keeps every request made, with
\* the statistics before and after it
AL_Batch ==
    /\ call_pc = "loop"
    /\ call_result.i < Len(call_result.smartlead_leads)
    /\ \E reply \in SmartleadReplies :
          LET batch == Slice(call_result.smartlead_leads, call_result.i, batch_size)
              payload == [lead_list |-> batch,
                          settings |->
                              [ignore_global_block_list |-> FALSE,
                               ignore_unsubscribe_list |-> FALSE,
                               ignore_duplicate_leads_in_other_campaign |->
                                   call_args.ignore_duplicates]]
              after == AfterBatch(call_result.total_stats, batch, reply)
          IN  call_result' =
                  [call_result EXCEPT
                      !.i = @ + batch_size,
                      !.total_stats = after.total_stats,
                      !.calls = Append(@, [payload |-> payload,
                                           failed |-> after.failed,
                                           before |-> call_result.total_stats,
                                           after |-> after.total_stats])]
    /\ UNCHANGED <<call_pc, call_args>>

\* line 97
AL_Return ==
    /\ call_pc = "loop"
    /\ call_result.i >= Len(call_result.smartlead_leads)
    /\ call_pc' = "returned"
    /\ UNCHANGED <<call_args, call_result>>

-----------------------------------------------------------------------------
(* CampaignManager.add_leads_to_campaign as one call: the loop of lines    *)
(* 46-95 over the replies of the successive requests                       *)

RECURSIVE AddLeadsLoop(_, _, _, _)
AddLeadsLoop(smartlead_leads, i, total_stats, replies) ==
    IF i >= Len(smartlead_leads) THEN total_stats
    ELSE AddLeadsLoop(smartlead_leads, i + batch_size,
                      AfterBatch(total_stats, Slice(smartlead_leads, i, batch_size),
                                 Head(replies)).total_stats,
                      Tail(replies))

\* add_leads_to_campaign(leads), replies being what the requests end in
AddLeadsToCampaign(lead_list, replies) ==
    IF lead_list = <<>> THEN NoStats
    ELSE AddLeadsLoop([k \in 1..Len(lead_list) |-> TransformLead(lead_list[k])],
                      0, NoStats, replies)

-----------------------------------------------------------------------------
(* main() of send_millemail_to_smartlead.py and of send_to_smartlead.py:   *)
(* the table, the command line and the environment are drawn; the run is   *)
(* followed step by step in call_pc, its state kept in call_result.        *)

\* most rows of the table when a send run starts
MaxRows == 2

SendScripts == {"send_millemail_to_smartlead", "send_to_smartlead"}

SendCredentials == {"SUPABASE_URL", "SUPABASE_KEY", "SMARTLEAD_API_KEY",
                    "SMARTLEAD_CAMPAIGN_ID"}
SendEnvChoices ==
    {[c \in SendCredentials |-> c # missing] : missing \in {"none", "SUPABASE_KEY",
                                                            "SMARTLEAD_CAMPAIGN_ID"}}

\* what a row of the table may hold besides its id
SendRowKinds ==
    {[status |-> "ready", company_type |-> "b2b", email_1 |-> "Bonjour"],
     [status |-> "ready", company_type |-> "b2b", email_1 |-> None],
     [status |-> "ready", company_type |-> "b2c", email_1 |-> "Bonjour"],
     [status |-> "sent", company_type |-> "b2b", email_1 |-> "Bonjour"]}

SendRow(id, kind) ==
    [id |-> id, email |-> <<"contact", id>>, company_domain |-> <<"domain", id>>,
     created_at |-> Now - HoursPerDay, status |-> kind.status,
     company_type |-> kind.company_type, email_1 |-> kind.email_1]

SendTables ==
    {[id \in 1..Len(kinds) |-> SendRow(id, kinds[id])] : kinds \in SeqsUpTo(SendRowKinds, MaxRows)}

\* the rows a query returns: those of table, in table order, that pass
RECURSIVE SelectRows(_, _)
SelectRows(table, passing) ==
    IF table = <<>> THEN <<>>
    ELSE (IF Head(table).id \in passing THEN <<Head(table)>> ELSE <<>>)
             \o SelectRows(Tail(table), passing)

\* .limit(limit)
Limit(rows, limit) == SubSeq(rows, 1, IF limit < Len(rows) THEN limit ELSE Len(rows))

\* get_ready_prospects(limit) of MilleMailSupabaseClient (lines 100-118)
GetReadyProspects(table, limit, ok) ==
    IF ~ok THEN <<>>
    ELSE Limit(SelectRows(table, {table[k].id : k \in {j \in 1..Len(table) :
                   /\ table[j].status = "ready"
                   /\ table[j].company_type = "b2b"
                   /\ table[j].email # None
                   /\ table[j].email_1 # None}}), limit)

\* get_leads_for_campaign(supabase, limit) of send_to_smartlead.py (14-31)
GetLeadsForCampaign(table, limit, ok) ==
    IF ~ok THEN <<>>
    ELSE Limit(SelectRows(table, {table[k].id : k \in {j \in 1..Len(table) :
                   /\ table[j].status = "ready"
                   /\ table[j].company_type = "b2b"
                   /\ table[j].email_1 # None}}), limit)

\* mutant of UpdateStatus: the update stamps the row as well
UpdateStatusStamping(table, ids, new_status) ==
    [k \in 1..Len(table) |->
        IF table[k].id \in ids
        THEN [table[k] EXCEPT !.status = new_status, !.created_at = Now]
        ELSE table[k]]

\* .update({"status": new_status}) on the rows whose id is in ids
UpdateStatus(table, ids, new_status) ==
    [k \in 1..Len(table) |->
        IF table[k].id \in ids THEN [table[k] EXCEPT !.status = new_status] ELSE table[k]]

\* what the platform does with each lead of a request it accepts
PlatformOutcomes == {"added", "duplicate", "invalid"}

NumberOf(outcomes, outcome) ==
    Cardinality({k \in DOMAIN outcomes : outcomes[k] = outcome})

\* the reply of the platform to a request it accepts: the counts of what
\* it did with the leads
PlatformReply(outcomes) ==
    [kind |-> "json_object",
     body |-> [total_leads |-> JsonInt(NumberOf(outcomes, "added")),
               already_added_to_campaign |-> JsonInt(NumberOf(outcomes, "duplicate")),
               invalid_email_count |-> JsonInt(NumberOf(outcomes, "invalid"))]]

\* the requests of a send run end in an exception, an HTTP error, or a
\* reply with the counts
SendReplies(n) ==
    [failure : {"exception", "http_error"}, outcomes : {<<>>}]
        \cup [failure : {"none"}, outcomes : [1..n -> PlatformOutcomes]]

SD_Init ==
    /\ call_pc = "parse"
    /\ call_args \in [script : SendScripts, yes : BOOLEAN, count : 1..MaxRows,
                      env : SendEnvChoices, table : SendTables]
    /\ call_result = [exit_status |-> "running", table |-> call_args.table,
                      prospects |-> <<>>, input_read |-> FALSE,
                      campaign_called |-> FALSE, outcomes |-> <<>>,
                      stats |-> NoStats]

SD_Exit(status) ==
    /\ call_pc' = "end"
    /\ call_result' = [call_result EXCEPT !.exit_status = status]

\* parser.parse_args(): send_to_smartlead.py declares no --yes, and argparse
\* leaves with status 2 on an argument it does not know
SD_ParseArgs ==
    /\ call_pc = "parse"
    /\ IF call_args.script = "send_to_smartlead" /\ call_args.yes
       THEN SD_Exit("2")
       ELSE call_pc' = "init" /\ UNCHANGED call_result
    /\ UNCHANGED call_args

\* lines 31-42 (63-74): the two clients are made
SD_Initialize ==
    /\ call_pc = "init"
    /\ IF \E c \in SendCredentials : ~call_args.env[c]
       THEN SD_Exit("1")
       ELSE call_pc' = "fetch" /\ UNCHANGED call_result
    /\ UNCHANGED call_args

\* lines 44-57 (76-89): the ready prospects are fetched
SD_Fetch ==
    /\ call_pc = "fetch"
    /\ \E ok \in BOOLEAN :
          LET prospects ==
                  IF call_args.script = "send_millemail_to_smartlead"
                  THEN GetReadyProspects(call_result.table, call_args.count, ok)
                  ELSE GetLeadsForCampaign(call_result.table, call_args.count, ok)
          IN  IF prospects = <<>>
              THEN SD_Exit("0")
              ELSE /\ call_pc' = "confirm"
                   /\ call_result' = [call_result EXCEPT !.prospects = prospects]
    /\ UNCHANGED call_args

\* lines 69-78 (100-106): the confirmation
SD_Confirm ==
    /\ call_pc = "confirm"
    /\ IF call_args.script = "send_millemail_to_smartlead" /\ call_args.yes
       THEN call_pc' = "send" /\ UNCHANGED call_result
       ELSE \E response \in {"yes", "y", "no", ""} :
                IF response \notin {"yes", "y"}
                THEN /\ call_pc' = "end"
                     /\ call_result' = [call_result EXCEPT !.exit_status = "0",
                                                           !.input_read = TRUE]
                ELSE /\ call_pc' = "send"
                     /\ call_result' = [call_result EXCEPT !.input_read = TRUE]
    /\ UNCHANGED call_args

\* lines 80-88 (108-116): add_leads_to_campaign(prospects)
SD_Send ==
    /\ call_pc = "send"
    /\ \E answer \in SendReplies(Len(call_result.prospects)) :
          LET reply == IF answer.failure = "none" THEN PlatformReply(answer.outcomes)
                       ELSE [kind |-> answer.failure, body |-> <<>>]
          IN  call_result' =
                  [call_result EXCEPT
                      !.campaign_called = TRUE,
                      !.outcomes = answer.outcomes,
                      !.stats = AddLeadsToCampaign(call_result.prospects, <<reply>>)]
    /\ call_pc' = "update"
    /\ UNCHANGED call_args

\* lines 90-111 (118-132): the first stats["added"] prospects are marked
\* sent, one update each (one update for all); main() returns
SD_Update ==
    /\ call_pc = "update"
    /\ LET successfully_added_ids ==
               {call_result.prospects[k].id :
                   k \in {j \in 1..Len(call_result.prospects) : j <= call_result.stats.added}}
       IN  IF call_result.stats.added > 0
           THEN \E updated \in
                    IF call_args.script = "send_millemail_to_smartlead"
                    THEN SUBSET successfully_added_ids
                    ELSE {successfully_added_ids, {}} :
                    call_result' =
                        [call_result EXCEPT
                            !.table = UpdateStatus(@, updated, "sent"),
                            !.exit_status = "0"]
           ELSE call_result' = [call_result EXCEPT !.exit_status = "0"]
    /\ call_pc' = "end"
    /\ UNCHANGED call_args

-----------------------------------------------------------------------------
(* Harness of the data store clients (MilleMailSupabaseClient and          *)
(* SupabaseClient): starting from an empty table, prospects are inserted,  *)
(* statuses are updated and the last contact dates are asked for, in any   *)
(* order; call_result holds the table and what the last call was given     *)
(* and returned.                                                           *)

StoreClients == {"MilleMailSupabaseClient", "SupabaseClient"}

\* the prospects handed to insert_prospects: created_at and status given
\* by the caller or left out
GivenProspects ==
    {WithoutAbsent(f) :
        f \in [company_domain : {"acme.com", "beta.io", None},
               email : {"ceo@acme.com"},
               created_at : {Absent}, status : {Absent, "sent"}]}
    \cup [company_domain : {"acme.com", "beta.io", None}, email : {"ceo@acme.com"},
          created_at : [wall : {Now - HoursPerDay, Now - 2 * HoursPerDay}, tz : {"naive"}],
          status : {"sent"}]
    \cup [company_domain : {"acme.com", "beta.io", None}, email : {"ceo@acme.com"},
          created_at : [wall : {Now - HoursPerDay, Now - 2 * HoursPerDay}, tz : {"naive"}]]

\* the statuses written by update_prospect_status
NewStatuses == {"sent", "replied"}

\* the rows the table gets from insert(prospects), ids following those
\* of the table
InsertedRows(table, prospect_list, utcoffset) ==
    [k \in 1..Len(prospect_list) |->
        Put(RowOf(WithDefaults(prospect_list[k], utcoffset)), "id", Len(table) + k)]

ST_Init ==
    /\ call_pc = "store"
    /\ call_args \in [client : StoreClients]
    /\ call_result = [table |-> <<>>, given |-> <<>>, inserted |-> 0,
                      asked |-> FALSE, last_contacts |-> <<>>]

\* insert_prospects(prospects) (79-98), insert_leads(leads)
ST_Insert ==
    /\ call_pc = "store"
    /\ \E prospect_list \in SeqsUpTo(GivenProspects, 2) \ {<<>>}, ok \in BOOLEAN,
          utcoffset \in LocalOffsets :
          /\ Len(call_result.table) + Len(prospect_list) <= MaxRows
          /\ call_result' =
                [table |-> IF ok THEN call_result.table
                                         \o InsertedRows(call_result.table, prospect_list,
                                                         utcoffset)
                           ELSE call_result.table,
                 given |-> IF ok THEN prospect_list ELSE <<>>,
                 inserted |-> IF ok THEN Len(prospect_list) ELSE 0,
                 asked |-> FALSE, last_contacts |-> <<>>]
    /\ UNCHANGED <<call_pc, call_args>>

\* update_prospect_status(prospect_id, new_status) (120-131),
\* update_lead_status(lead_id, new_status)
ST_UpdateStatus ==
    /\ call_pc = "store"
    /\ \E id \in 1..MaxRows, new_status \in NewStatuses, ok \in BOOLEAN :
          call_result' =
              [call_result EXCEPT
                  !.table = IF ok THEN UpdateStatus(@, {id}, new_status) ELSE @,
                  !.given = <<>>, !.inserted = 0,
                  !.asked = FALSE, !.last_contacts = <<>>]
    /\ UNCHANGED <<call_pc, call_args>>

\* update_lead_status_to_sent(supabase, lead_ids) of send_to_smartlead.py
ST_MarkSent ==
    /\ call_pc = "store"
    /\ call_args.client = "SupabaseClient"
    /\ \E ids \in SUBSET (1..MaxRows), ok \in BOOLEAN :
          call_result' =
              [call_result EXCEPT
                  !.table = IF ok /\ ids # {} THEN UpdateStatus(@, ids, "sent") ELSE @,
                  !.given = <<>>, !.inserted = 0,
                  !.asked = FALSE, !.last_contacts = <<>>]
    /\ UNCHANGED <<call_pc, call_args>>

\* get_last_contact_dates() of the client
ST_GetLastContactDates ==
    /\ call_pc = "store"
    /\ \E ok \in BOOLEAN :
          LET rows == {call_result.table[k] : k \in 1..Len(call_result.table)}
          IN  call_result' =
                  [call_result EXCEPT
                      !.given = <<>>, !.inserted = 0,
                      !.asked = TRUE,
                      !.last_contacts =
                          IF call_args.client = "MilleMailSupabaseClient"
                          THEN GetLastContactDates(rows, ok)
                          ELSE GetLeadLastContactDates(rows, ok)]
    /\ UNCHANGED <<call_pc, call_args>>

-----------------------------------------------------------------------------
(* Personalizer.generate_full_sequence (personalizer.py 41-154). The text  *)
(* of the generator is a sequence of lexical pieces: a brace, a comma, a   *)
(* blank, a run of JSON members, a digit, or words that are no JSON.       *)

\* longest reply text, in pieces
MaxText == 5

SequenceFields == {"subject_line", "email_1", "email_1_ps", "email_2", "email_3"}

\* the members a piece holds: "five members" is the text of the five
\* fields with their values, separated by commas; "one member" is the text
\* of subject_line and its value
MemberPieces == {"five members", "one member"}
MembersOf(piece) ==
    IF piece = "five members" THEN SequenceFields ELSE {"subject_line"}

\* the pieces of a text: braces, a comma, a blank, the digit 7, a member
\* piece, or words that are no JSON
TextPieces == {"{", "}", ",", " ", "7", "words"} \cup MemberPieces

\* the number written with n digits 7
Sevens(n) == ((10 ^ n - 1) \div 9) * 7

\* json.loads(text): [ok, value].  The text is a JSON document when, blanks
\* around it apart, it is a run of digits, read as one number, or an object:
\* braces around member pieces separated by commas, with blanks anywhere
\* between the pieces.  An object is the dict of its members; anything else
\* raises JSONDecodeError.
JsonLoads(text) ==
    LET Blank(piece) == piece \in {" ", "\t", "\n", "\r"}
        Inked(piece) == ~Blank(piece)
        inked == {k \in 1..Len(text) : Inked(text[k])}
        trimmed == IF inked = {} THEN <<>>
                   ELSE SubSeq(text, CHOOSE k \in inked : \A m \in inked : k <= m,
                                     CHOOSE k \in inked : \A m \in inked : k >= m)
        pieces == SelectSeq(text, Inked)
        inner == SubSeq(pieces, 2, Len(pieces) - 1)
    IN  IF trimmed # <<>> /\ \A k \in 1..Len(trimmed) : trimmed[k] = "7"
        THEN [ok |-> TRUE, value |-> JsonInt(Sevens(Len(trimmed)))]
        ELSE IF /\ Len(pieces) >= 2
                /\ pieces[1] = "{"
                /\ pieces[Len(pieces)] = "}"
                /\ Len(inner) = 0 \/ Len(inner) % 2 = 1
                /\ \A k \in 1..Len(inner) :
                      IF k % 2 = 1 THEN inner[k] \in MemberPieces ELSE inner[k] = ","
        THEN [ok |-> TRUE,
              value |-> [f \in UNION {MembersOf(inner[k]) :
                                         k \in {m \in 1..Len(inner) : m % 2 = 1}} |->
                            <<"generated", f>>]]
        ELSE [ok |-> FALSE, value |-> <<>>]

\* re.search(r"\{.*\}", text, re.DOTALL): [found, group], the group running
\* from the first opening brace to the last closing brace after it
SearchBraces(text) ==
    LET opens == {k \in 1..Len(text) : text[k] = "{"}
        first == CHOOSE k \in opens : \A m \in opens : k <= m
        closes == {k \in 1..Len(text) : text[k] = "}" /\ k > first}
        last == CHOOSE k \in closes : \A m \in closes : k >= m
    IN  IF opens = {} THEN [found |-> FALSE, group |-> <<>>]
        ELSE IF closes = {} THEN [found |-> FALSE, group |-> <<>>]
        ELSE [found |-> TRUE, group |-> SubSeq(text, first, last)]

\* _fallback_sequence(lead) (156-167); a text is named by what it is made of
FallbackSequence(lead) ==
    [subject_line |-> "{infrastructure|setup} email",
     email_1 |-> <<"fallback email_1", GetOr(lead, "company_name", "votre entreprise"),
                   GetOr(lead, "job_title", "commercial")>>,
     email_1_ps |-> <<"fallback email_1_ps">>,
     email_2 |-> <<"fallback email_2">>,
     email_3 |-> <<"fallback email_3">>]

\* generate_full_sequence(lead), reply being what messages.create ends in:
\* an exception, no content block, or a text
GenerateFullSequence(lead, reply) ==
    LET response_text == Strip(reply.text)
        parsed == JsonLoads(response_text)
        json_match == SearchBraces(response_text)
        extracted == JsonLoads(json_match.group)
    IN  IF reply.kind # "text" THEN FallbackSequence(lead)
        ELSE IF parsed.ok THEN parsed.value
        ELSE IF ~json_match.found THEN FallbackSequence(lead)
        ELSE IF extracted.ok THEN extracted.value
        ELSE FallbackSequence(lead)

\* Harness of generate_full_sequence: a lead and a reply are drawn
SequenceLeads == {[company_name |-> "Acme", job_title |-> "CRO"], [company_name |-> "Acme"]}

SequenceReplies ==
    [kind : {"exception", "no content"}, text : {<<>>}]
        \cup [kind : {"text"}, text : SeqsUpTo(TextPieces, MaxText)]

GS_Init ==
    /\ call_pc = "input"
    /\ call_args \in [lead : SequenceLeads, reply : SequenceReplies]
    /\ call_result = <<>>

GS_Call ==
    /\ call_pc = "input"
    /\ call_result' = GenerateFullSequence(call_args.lead, call_args.reply)
    /\ call_pc' = "returned"
    /\ UNCHANGED call_args

-----------------------------------------------------------------------------
(* main() of millemail_pipeline.py *)

\* the stages of a run, in the order main() goes through them
StageOrder == <<"init", "load", "scrape", "company_name_dedupe", "transform",
                "enrich", "identity_dedupe", "cooldown_filter",
                "generate_sequence", "persist", "summary">>

\* the environments tried: every credential set, or one of them missing
Credentials == {"APIFY_API_KEY", "HUNTER_API_KEY", "ANTHROPIC_API_KEY",
                "SUPABASE_URL", "SUPABASE_KEY"}
EnvChoices == {[c \in Credentials |-> c # missing] : missing \in Credentials \cup {"none"}}

\* rows the table may hold when the run starts
StoreRows ==
    {[company_domain |-> "acme.com", email |-> "old@acme.com", status |-> "sent",
      created_at |-> Now - HoursPerDay],
     [company_domain |-> "carrefour.fr", email |-> "dg@carrefour.fr", status |-> "ready",
      created_at |-> Now - HoursPerDay]}
\* the notation of the created_at column: written by the store with an
\* offset, or as insert_prospects writes it, without
StoreNotations == {"+00:00", "naive"}

Main_Init ==
    /\ pc = "init"
    /\ stage_log = <<"init">>
    /\ exit_status = "running"
    /\ calls = {}
    /\ env \in EnvChoices
    /\ count \in CountChoices
    /\ store \in SUBSET StoreRows
    /\ store_tz \in StoreNotations
    /\ existing_contacts = {}
    /\ last_contact_dates = <<>>
    /\ kw = 1
    /\ all_jobs = <<>> /\ unique_jobs = <<>> /\ leads = <<>> /\ li = 1
    /\ enriched_leads = <<>> /\ b2c_skipped = 0 /\ no_email_found = 0
    /\ new_leads = <<>> /\ ready_leads = <<>> /\ gi = 1
    /\ prospects_with_sequences = <<>> /\ inserted = 0

Main_Idle ==
    /\ pc = "off"
    /\ stage_log = <<>>
    /\ exit_status = "running"
    /\ calls = {}
    /\ env = [c \in Credentials |-> TRUE]
    /\ count = 0
    /\ store = {}
    /\ store_tz = "+00:00"
    /\ existing_contacts = {}
    /\ last_contact_dates = <<>>
    /\ kw = 1
    /\ all_jobs = <<>> /\ unique_jobs = <<>> /\ leads = <<>> /\ li = 1
    /\ enriched_leads = <<>> /\ b2c_skipped = 0 /\ no_email_found = 0
    /\ new_leads = <<>> /\ ready_leads = <<>> /\ gi = 1
    /\ prospects_with_sequences = <<>> /\ inserted = 0

\* main() moves on to the next stage
Goto(stage) ==
    /\ pc' = stage
    /\ stage_log' = Append(stage_log, stage)
    /\ exit_status' = exit_status

\* sys.exit(status), or an exception leaving main()
Exit(status) ==
    /\ pc' = "done"
    /\ stage_log' = stage_log
    /\ exit_status' = status

\* main() stays in its current loop
Stay ==
    /\ pc' = pc
    /\ stage_log' = stage_log
    /\ exit_status' = exit_status

setup_vars == <<env, count>>
load_vars == <<existing_contacts, last_contact_dates>>
scrape_vars == <<kw, all_jobs>>
enrich_vars == <<li, enriched_leads, b2c_skipped, no_email_found>>
tail_vars == <<new_leads, ready_leads, gi, prospects_with_sequences, inserted>>

\* lines 149-159: the four clients are constructed.  LinkedInJobScraper and
\* MilleMailSupabaseClient raise ValueError on a missing credential;
\* EmailEnricher and Personalizer hand their keys to the libraries unchecked,
\* and whether anthropic.Anthropic(api_key=None) raises is the library's
\* choice.
Initialize ==
    /\ pc = "init"
    /\ \E anthropic_raises \in BOOLEAN :
          LET failed == \/ ~env.APIFY_API_KEY
                        \/ (~env.ANTHROPIC_API_KEY /\ anthropic_raises)
                        \/ ~env.SUPABASE_URL
                        \/ ~env.SUPABASE_KEY
          IN IF failed THEN Exit("1") ELSE Goto("load")
    /\ UNCHANGED <<calls, setup_vars, store, store_tz, load_vars, scrape_vars,
                   unique_jobs, leads, enrich_vars, tail_vars>>

\* lines 161-166: the stored contacts and contact dates are read
LoadContacts ==
    /\ pc = "load"
    /\ \E ok1, ok2 \in BOOLEAN :
          /\ existing_contacts' = GetExistingContacts(store, ok1)
          /\ last_contact_dates' = GetLastContactDates(store, ok2)
    /\ calls' = calls \cup {"supabase"}
    /\ Goto("scrape")
    /\ UNCHANGED <<setup_vars, store, store_tz, scrape_vars, unique_jobs, leads,
                   enrich_vars, tail_vars>>

\* mutant of LastKeyword: the loop ends one keyword early
LastKeywordEarly(i) == i >= Len(Keywords) - 1

\* line 176: the for loop over args.keywords ends after the last keyword
LastKeyword(i) == i = Len(Keywords)

\* lines 176-202: one iteration of the scrape loop
ScrapeKeyword ==
    /\ pc = "scrape"
    /\ \E jobs \in ScrapeReplies(Keywords[kw]) :
          all_jobs' = all_jobs \o
              [j \in 1..Len(jobs) |-> Put(jobs[j], "source_keyword", Keywords[kw])]
    /\ calls' = calls \cup {"apify"}
    /\ kw' = kw + 1
    /\ IF LastKeyword(kw) THEN Goto("company_name_dedupe") ELSE Stay
    /\ UNCHANGED <<setup_vars, store, store_tz, load_vars, unique_jobs, leads,
                   enrich_vars, tail_vars>>

\* mutant of UniqueJobsLoop: every job with a company name is kept
UniqueJobsLoopKeepAll(jobs, i, seen_companies, unique) ==
    LET Named(job) == Truthy(GetOr(job, "company_name", ""))
    IN  SelectSeq(jobs, Named)

RECURSIVE UniqueJobsLoop(_, _, _, _)
\* lines 206-212: the loop from job i on
UniqueJobsLoop(jobs, i, seen_companies, unique) ==
    IF i > Len(jobs) THEN unique
    ELSE LET company_name == IF "company_name" \in DOMAIN jobs[i]
                             THEN jobs[i].company_name ELSE ""
         IN IF Truthy(company_name) /\ company_name \notin seen_companies
            THEN UniqueJobsLoop(jobs, i + 1, seen_companies \cup {company_name},
                                Append(unique, jobs[i]))
            ELSE UniqueJobsLoop(jobs, i + 1, seen_companies, unique)

\* mutant of NoLeadsStatus: a run without leads ends as a failure
NoLeadsStatusFailure == "1"

\* the exit status of a run that ends for want of leads (lines 218, 297, 317)
NoLeadsStatus == "0"

\* lines 204-218: deduplication by company name, and the exit on no job
DedupeCompanies ==
    /\ pc = "company_name_dedupe"
    /\ unique_jobs' = UniqueJobsLoop(all_jobs, 1, {}, <<>>)
    /\ IF unique_jobs' = <<>> THEN Exit(NoLeadsStatus) ELSE Goto("transform")
    /\ UNCHANGED <<calls, setup_vars, store, store_tz, load_vars, scrape_vars, leads,
                   enrich_vars, tail_vars>>

\* Python's seq[:n]
SliceTo(seq, n) ==
    IF n >= 0 THEN SubSeq(seq, 1, IF n < Len(seq) THEN n ELSE Len(seq))
    ELSE SubSeq(seq, 1, IF Len(seq) + n > 0 THEN Len(seq) + n ELSE 0)

\* lines 224-233: the lead made of a job
JobToLead(job) ==
    [company_name |-> Get(job, "company_name"),
     job_title |-> Get(job, "job_title"),
     job_url |-> Get(job, "job_url"),
     location |-> Get(job, "location"),
     source_keyword |-> Get(job, "source_keyword"),
     posted_date |-> Get(job, "posted_date")]

\* lines 220-234: the jobs become leads, up to the limit
Transform ==
    /\ pc = "transform"
    /\ LET taken == SliceTo(unique_jobs, count * Len(Keywords))
       IN leads' = [j \in 1..Len(taken) |-> JobToLead(taken[j])]
    /\ li' = 1
    /\ Goto("enrich")
    /\ UNCHANGED <<calls, setup_vars, store, store_tz, load_vars, scrape_vars,
                   unique_jobs, enriched_leads, b2c_skipped, no_email_found, tail_vars>>

\* lines 243-288: the body of the enrich loop for one lead, given the
\* collaborators' answers: the lead as the body leaves it, how the body
\* ended, and whether the text generator was called
\* mutant of WithCompanyType: the lead is left without a company_type
WithCompanyTypeUnset(lead) == lead

\* line 265: lead["company_type"] = "b2b"
WithCompanyType(lead) == Put(lead, "company_type", "b2b")

EnrichOne(lead, dr, sr, ar, cr, vr) ==
    LET company_name == Get(lead, "company_name")
        domain == FindCompanyDomain(company_name, dr)
        lead1 == Put(lead, "company_domain", domain)
        size_info == GetCompanySize(domain, sr)
        industry == Get(size_info, "industry")
        description == Get(size_info, "description")
        b2c_check == IsB2CCompany(company_name, industry, description, ar)
        asked_ai == HasCompanyData(industry, description)
        lead2 == WithCompanyType(lead1)
        contact == FindDecisionMaker(domain, cr)
        lead3 == [x \in DOMAIN lead2 \cup {"email", "first_name", "last_name", "title"} |->
                    CASE x = "email" -> contact.email
                      [] x = "first_name" -> contact.first_name
                      [] x = "last_name" -> contact.last_name
                      [] x = "title" -> contact.title
                      [] OTHER -> lead2[x]]
        verification == VerifyEmail(contact.email, vr)
        lead4 == [x \in DOMAIN lead3 \cup {"verification_status", "verification_score"} |->
                    CASE x = "verification_status" -> verification.status
                      [] x = "verification_score" -> verification.score
                      [] OTHER -> lead3[x]]
    IN IF ~Truthy(domain)
       THEN [lead |-> lead, end |-> "no_domain", ai |-> FALSE]
       ELSE IF b2c_check.is_b2c
       THEN [lead |-> lead1, end |-> "b2c", ai |-> asked_ai]
       ELSE IF ~contact.found
       THEN [lead |-> lead2, end |-> "no_contact", ai |-> asked_ai]
       ELSE IF ~verification.verified
       THEN [lead |-> lead3, end |-> "unverified", ai |-> asked_ai]
       ELSE [lead |-> lead4, end |-> "enriched", ai |-> asked_ai]

\* the answers of a collaborator that is asked only when needed: when it is
\* not asked, one answer that nothing reads
Asked(replies, needed) == IF needed THEN replies ELSE {CHOOSE r \in replies : TRUE}

\* lines 242-288: one iteration of the enrich loop
EnrichLead ==
    /\ pc = "enrich"
    /\ li <= Len(leads)
    /\ \E dr \in DomainReplies(Get(leads[li], "company_name")) :
       LET name == Get(leads[li], "company_name")
           domain == FindCompanyDomain(name, dr) IN
       \E sr \in Asked(CompanyReplies(domain), Truthy(domain)) :
       LET size_info == GetCompanySize(domain, sr)
           has_data == HasCompanyData(Get(size_info, "industry"),
                                      Get(size_info, "description")) IN
       \E ar \in Asked(AIReplies, Truthy(domain) /\ has_data) :
       LET b2c == IsB2CCompany(name, Get(size_info, "industry"),
                               Get(size_info, "description"), ar).is_b2c IN
       \E cr \in Asked(ContactReplies(domain), Truthy(domain) /\ ~b2c) :
       LET contact == FindDecisionMaker(domain, cr) IN
       \E vr \in Asked(VerifierReplies(Get(contact, "email")),
                       Truthy(domain) /\ ~b2c /\ contact.found /\ Truthy(contact.email)) :
          LET r == EnrichOne(leads[li], dr, sr, ar, cr, vr)
          IN /\ leads' = [leads EXCEPT ![li] = r.lead]
             /\ enriched_leads' = IF r.end = "enriched"
                                  THEN Append(enriched_leads, r.lead)
                                  ELSE enriched_leads
             /\ b2c_skipped' = IF r.end = "b2c" THEN b2c_skipped + 1 ELSE b2c_skipped
             /\ no_email_found' = IF r.end \in {"no_domain", "no_contact"}
                                  THEN no_email_found + 1 ELSE no_email_found
             /\ calls' = calls \cup {"hunter"} \cup (IF r.ai THEN {"anthropic"} ELSE {})
    /\ li' = li + 1
    /\ Stay
    /\ UNCHANGED <<setup_vars, store, store_tz, load_vars, scrape_vars, unique_jobs,
                   tail_vars>>

\* lines 290-297: the loop is over; exit when no lead was enriched
EnrichDone ==
    /\ pc = "enrich"
    /\ li > Len(leads)
    /\ IF enriched_leads = <<>> THEN Exit(NoLeadsStatus) ELSE Goto("identity_dedupe")
    /\ UNCHANGED <<calls, setup_vars, store, store_tz, load_vars, scrape_vars,
                   unique_jobs, leads, enrich_vars, tail_vars>>

\* lines 299-304
FilterDuplicatesStep ==
    /\ pc = "identity_dedupe"
    /\ new_leads' = FilterDuplicates(enriched_leads, existing_contacts)
    /\ Goto("cooldown_filter")
    /\ UNCHANGED <<calls, setup_vars, store, store_tz, load_vars, scrape_vars,
                   unique_jobs, leads, enrich_vars, ready_leads, gi,
                   prospects_with_sequences, inserted>>

\* lines 306-317: the cooldown filter, whose TypeError nothing catches, and
\* the exit when no lead is left
FilterCooldownStep ==
    /\ pc = "cooldown_filter"
    /\ LET r == FilterCooldown(new_leads, last_contact_dates, DefaultCooldownDays)
       IN IF r.exc # "none"
          THEN ready_leads' = ready_leads /\ Exit(r.exc)
          ELSE /\ ready_leads' = r.filtered
               /\ IF r.filtered = <<>> THEN Exit(NoLeadsStatus)
                  ELSE Goto("generate_sequence")
    /\ gi' = 1
    /\ UNCHANGED <<calls, setup_vars, store, store_tz, load_vars, scrape_vars,
                   unique_jobs, leads, enrich_vars, new_leads,
                   prospects_with_sequences, inserted>>

\* The lists leads, enriched_leads, new_leads, ready_leads and
\* prospects_with_sequences hold the same dicts (lines 224, 288, 334;
\* filter_duplicates line 68; filter_cooldown), so that a write to a lead
\* shows in every list holding it.  A dict is known by its company_name,
\* which the deduplication of lines 207-212 makes unique among the leads
\* and which nothing rewrites.
SameLead(a, b) == Get(a, "company_name") = Get(b, "company_name")

\* the list after the lead `written` was written to in place
Rewritten(list, written) ==
    [k \in 1..Len(list) |-> IF SameLead(list[k], written) THEN written ELSE list[k]]

\* lines 323-334: one iteration of the sequence loop
GenerateSequence ==
    /\ pc = "generate_sequence"
    /\ \E v \in VersionChoices :
          LET lead == ready_leads[gi]
              sequence == GenerateMillemailSequence(lead, v)
              done == [x \in DOMAIN lead \cup DOMAIN sequence |->
                          IF x \in DOMAIN sequence THEN sequence[x] ELSE lead[x]]
          IN /\ leads' = Rewritten(leads, done)
             /\ enriched_leads' = Rewritten(enriched_leads, done)
             /\ new_leads' = Rewritten(new_leads, done)
             /\ ready_leads' = Rewritten(ready_leads, done)
             /\ prospects_with_sequences' = Append(prospects_with_sequences, done)
    /\ gi' = gi + 1
    /\ IF gi = Len(ready_leads) THEN Goto("persist") ELSE Stay
    /\ UNCHANGED <<calls, setup_vars, store, store_tz, load_vars, scrape_vars,
                   unique_jobs, li, b2c_skipped, no_email_found, inserted>>

\* the list after insert_prospects wrote its defaults, in place, to the
\* prospects handed to it
Stamped(list, prospects, utcoffset) ==
    [k \in 1..Len(list) |->
        IF \E j \in 1..Len(prospects) : SameLead(list[k], prospects[j])
        THEN WithDefaults(list[k], utcoffset) ELSE list[k]]

\* lines 338-341 and insert_prospects: the defaults are written to the
\* leads, the batch is inserted; a failed insert is caught and counts zero
InsertProspects ==
    /\ pc = "persist"
    /\ \E utcoffset \in LocalOffsets, ok \in BOOLEAN :
          LET prospects == Stamped(prospects_with_sequences,
                                   prospects_with_sequences, utcoffset)
          IN /\ prospects_with_sequences' = prospects
             /\ leads' = Stamped(leads, prospects_with_sequences, utcoffset)
             /\ enriched_leads' =
                   Stamped(enriched_leads, prospects_with_sequences, utcoffset)
             /\ new_leads' = Stamped(new_leads, prospects_with_sequences, utcoffset)
             /\ ready_leads' = Stamped(ready_leads, prospects_with_sequences, utcoffset)
             /\ IF ok
                THEN /\ store' = store \cup {RowOf(prospects[j]) : j \in 1..Len(prospects)}
                     /\ inserted' = Len(prospects)
                ELSE /\ store' = store
                     /\ inserted' = 0
    /\ calls' = calls \cup {"supabase"}
    /\ Goto("summary")
    /\ UNCHANGED <<setup_vars, store_tz, load_vars, scrape_vars, unique_jobs,
                   li, b2c_skipped, no_email_found, gi>>

\* lines 343-355: the summary report; main() returns
Summary ==
    /\ pc = "summary"
    /\ Exit("0")
    /\ UNCHANGED <<calls, setup_vars, store, store_tz, load_vars, scrape_vars,
                   unique_jobs, leads, enrich_vars, tail_vars>>

-----------------------------------------------------------------------------
(* Harness of the two transformations of a scraped record into a lead: a  *)
(* job posting (lines 224-233 of main) and a profile                      *)
(* (transform_for_pipeline); a record is drawn with some keys absent.     *)

RawJobs ==
    {WithoutAbsent(f) :
        f \in [company_name : {Absent, "Acme"}, job_title : {Absent, "CRO"},
               job_url : {Absent, "https://linkedin.example/jobs/1"},
               location : {Absent, "Paris"}, source_keyword : {Absent, "CRO"},
               posted_date : {Absent, "2026-10-28"}]}

RawProfiles ==
    {WithoutAbsent(f) :
        f \in [companyName : {Absent, "", "Acme"},
               currentCompany : {Absent, NoName, "Acme Corp"},
               headline : {Absent, "VP Sales at Acme"}, jobTitle : {Absent, "VP Sales"},
               profileUrl : {Absent, "https://linkedin.example/in/ann"},
               publicIdentifier : {Absent, "ann"},
               firstName : {Absent, "Ann"}, lastName : {Absent, "Lee"},
               geoLocationName : {Absent, "Paris"}, geoCountryName : {Absent, "France"}]}

CL_Init ==
    /\ call_pc = "input"
    /\ call_args \in [kind : {"job"}, raw : RawJobs] \cup [kind : {"profile"}, raw : RawProfiles]
    /\ call_result = <<>>

\* lines 224-233 of main(): leads.append({...}) for one job
CL_Job ==
    /\ call_pc = "input"
    /\ call_args.kind = "job"
    /\ call_result' = JobToLead(call_args.raw)
    /\ call_pc' = "returned"
    /\ UNCHANGED call_args

\* transform_for_pipeline([profile])[0]
CL_Profile ==
    /\ call_pc = "input"
    /\ call_args.kind = "profile"
    /\ call_result' = ProfileToLead(call_args.raw)
    /\ call_pc' = "returned"
    /\ UNCHANGED call_args

-----------------------------------------------------------------------------
(* Harness of the deduplication by company name (lines 204-212 of main,    *)
(* lines 89-96 of scrape_jobs): a list of scraped jobs is drawn, some      *)
(* without a company name, and the loop is run over it.                    *)

ScrapedJobs ==
    {WithoutAbsent(f) :
        f \in [company_name : {Absent, None, "", "Acme", "acme"},
               job_title : {"CRO", "VP Sales"}]}

DJ_Init ==
    /\ call_pc = "input"
    /\ call_args \in [jobs : SeqsUpTo(ScrapedJobs, MaxBatch)]
    /\ call_result = <<>>

DJ_Call ==
    /\ call_pc = "input"
    /\ call_result' = UniqueJobsLoop(call_args.jobs, 1, {}, <<>>)
    /\ call_pc' = "returned"
    /\ UNCHANGED call_args

-----------------------------------------------------------------------------
(* LinkedInProfileScraper.filter_profiles (linkedin_profile_scraper.py     *)
(* 154-212) as a loop over a drawn list of profiles: call_result holds the *)
(* loop index, the profiles kept, the counters, and the calls made to the  *)
(* enricher with the index of the profile they were made for.              *)

FilterableProfiles ==
    {WithoutAbsent(f) :
        f \in [companyName : {Absent, "", "Acme", "Carrefour"},
               currentCompany : {Absent, NoName, "Carrefour"},
               firstName : {"Ann"}]}

\* lines 170-172
ProfileCompanyName(profile) ==
    Or(Get(profile, "companyName"), CurrentCompanyName(profile))

\* Hunter's answers to /companies/find for a profile's company: those of
\* the pipeline, and a company of 501 to 1000 people
ProfileSizeReplies(domain) ==
    CompanyReplies(domain)
        \cup {[status |-> 200, employees |-> "501-1K", industry |-> "",
               sector |-> "Software", description |-> ""]}

\* mutant of ResolverAsked: the enricher is asked about every profile
ResolverAskedAlways(company_name, email_enricher) == email_enricher

\* lines 177-190: the enricher is reached by a profile that has a company
\* name which is not on the list, when there is an enricher
ResolverAsked(company_name, email_enricher) ==
    /\ email_enricher
    /\ Truthy(company_name)
    /\ ~IsBigCorporate(Chars(company_name))

NoFilterStats == [big_corporate_list |-> 0, big_corporate_api |-> 0,
                  no_company |-> 0, passed |-> 0]

FP_Init ==
    /\ call_pc = "loop"
    /\ call_args \in [profiles : SeqsUpTo(FilterableProfiles, MaxLen),
                      email_enricher : BOOLEAN]
    /\ call_result = [pi |-> 1, filtered |-> <<>>, stats |-> NoFilterStats,
                      asked |-> <<>>]

\* lines 169-204: one turn of the loop
FP_Profile ==
    /\ call_pc = "loop"
    /\ call_result.pi <= Len(call_args.profiles)
    /\ LET profile == call_args.profiles[call_result.pi]
           company_name == ProfileCompanyName(profile)
           asks == ResolverAsked(company_name, call_args.email_enricher)
       IN  \E dr \in Asked(DomainReplies(company_name), asks) :
           LET domain == FindCompanyDomain(company_name, dr) IN
           \E sr \in Asked(ProfileSizeReplies(domain), asks /\ Truthy(domain)) :
           LET size_info == GetCompanySize(domain, sr)
               calls_made ==
                   (IF asks
                    THEN <<[method |-> "find_company_domain", for |-> call_result.pi]>>
                    ELSE <<>>)
                   \o (IF asks /\ Truthy(domain)
                       THEN <<[method |-> "get_company_size", for |-> call_result.pi]>>
                       ELSE <<>>)
               end == IF ~Truthy(company_name) THEN "no_company"
                      ELSE IF IsBigCorporate(Chars(company_name)) THEN "big_corporate_list"
                      ELSE IF asks /\ Truthy(domain) /\ size_info.is_large_company
                      THEN "big_corporate_api"
                      ELSE "passed"
           IN  call_result' =
                   [pi |-> call_result.pi + 1,
                    filtered |-> IF end = "passed" THEN Append(call_result.filtered, profile)
                                 ELSE call_result.filtered,
                    stats |-> [call_result.stats EXCEPT ![end] = @ + 1],
                    asked |-> call_result.asked \o calls_made]
    /\ UNCHANGED <<call_pc, call_args>>

\* lines 206-212
FP_Return ==
    /\ call_pc = "loop"
    /\ call_result.pi > Len(call_args.profiles)
    /\ call_pc' = "returned"
    /\ UNCHANGED <<call_args, call_result>>

-----------------------------------------------------------------------------
(* Specifications *)

vars == <<fd_vars, fc_vars, main_vars, call_vars>>

\* no method is being called on its own
Call_Idle ==
    /\ call_pc = "off"
    /\ call_args = <<>>
    /\ call_result = <<>>

InitFD == FD_Init /\ FC_Idle /\ Main_Idle /\ Call_Idle
NextFD ==
    \/ FD_Apply /\ UNCHANGED <<fc_vars, main_vars, call_vars>>
    \/ FD_ApplyAgain /\ UNCHANGED <<fc_vars, main_vars, call_vars>>
SpecFD == InitFD /\ [][NextFD]_vars

InitFC == FC_Init /\ FD_Idle /\ Main_Idle /\ Call_Idle
NextFC == FC_Apply /\ UNCHANGED <<fd_vars, main_vars, call_vars>>
SpecFC == InitFC /\ [][NextFC]_vars

InitSize == SZ_Init /\ FD_Idle /\ FC_Idle /\ Main_Idle
NextSize == SZ_Call /\ UNCHANGED <<fd_vars, fc_vars, main_vars>>
SpecSize == InitSize /\ [][NextSize]_vars

InitBrand == BR_Init /\ FD_Idle /\ FC_Idle /\ Main_Idle
NextBrand == BR_Call /\ UNCHANGED <<fd_vars, fc_vars, main_vars>>
SpecBrand == InitBrand /\ [][NextBrand]_vars

InitB2C == BC_Init /\ FD_Idle /\ FC_Idle /\ Main_Idle
NextB2C == BC_Call /\ UNCHANGED <<fd_vars, fc_vars, main_vars>>
SpecB2C == InitB2C /\ [][NextB2C]_vars

InitPayload == TL_Init /\ FD_Idle /\ FC_Idle /\ Main_Idle
NextPayload == TL_Call /\ UNCHANGED <<fd_vars, fc_vars, main_vars>>
SpecPayload == InitPayload /\ [][NextPayload]_vars

InitLead == CL_Init /\ FD_Idle /\ FC_Idle /\ Main_Idle
NextLead ==
    \/ CL_Job /\ UNCHANGED <<fd_vars, fc_vars, main_vars>>
    \/ CL_Profile /\ UNCHANGED <<fd_vars, fc_vars, main_vars>>
SpecLead == InitLead /\ [][NextLead]_vars

InitAdd == AL_Init /\ FD_Idle /\ FC_Idle /\ Main_Idle
NextAdd ==
    \/ AL_Start /\ UNCHANGED <<fd_vars, fc_vars, main_vars>>
    \/ AL_Batch /\ UNCHANGED <<fd_vars, fc_vars, main_vars>>
    \/ AL_Return /\ UNCHANGED <<fd_vars, fc_vars, main_vars>>
SpecAdd == InitAdd /\ [][NextAdd]_vars

InitSend == SD_Init /\ FD_Idle /\ FC_Idle /\ Main_Idle
NextSend ==
    \/ SD_ParseArgs /\ UNCHANGED <<fd_vars, fc_vars, main_vars>>
    \/ SD_Initialize /\ UNCHANGED <<fd_vars, fc_vars, main_vars>>
    \/ SD_Fetch /\ UNCHANGED <<fd_vars, fc_vars, main_vars>>
    \/ SD_Confirm /\ UNCHANGED <<fd_vars, fc_vars, main_vars>>
    \/ SD_Send /\ UNCHANGED <<fd_vars, fc_vars, main_vars>>
    \/ SD_Update /\ UNCHANGED <<fd_vars, fc_vars, main_vars>>
SpecSend == InitSend /\ [][NextSend]_vars

InitStore == ST_Init /\ FD_Idle /\ FC_Idle /\ Main_Idle
NextStore ==
    \/ ST_Insert /\ UNCHANGED <<fd_vars, fc_vars, main_vars>>
    \/ ST_UpdateStatus /\ UNCHANGED <<fd_vars, fc_vars, main_vars>>
    \/ ST_MarkSent /\ UNCHANGED <<fd_vars, fc_vars, main_vars>>
    \/ ST_GetLastContactDates /\ UNCHANGED <<fd_vars, fc_vars, main_vars>>
SpecStore == InitStore /\ [][NextStore]_vars

InitSequence == GS_Init /\ FD_Idle /\ FC_Idle /\ Main_Idle
NextSequence == GS_Call /\ UNCHANGED <<fd_vars, fc_vars, main_vars>>
SpecSequence == InitSequence /\ [][NextSequence]_vars

InitDedupe == DJ_Init /\ FD_Idle /\ FC_Idle /\ Main_Idle
NextDedupe == DJ_Call /\ UNCHANGED <<fd_vars, fc_vars, main_vars>>
SpecDedupe == InitDedupe /\ [][NextDedupe]_vars

InitProfiles == FP_Init /\ FD_Idle /\ FC_Idle /\ Main_Idle
NextProfiles ==
    \/ FP_Profile /\ UNCHANGED <<fd_vars, fc_vars, main_vars>>
    \/ FP_Return /\ UNCHANGED <<fd_vars, fc_vars, main_vars>>
SpecProfiles == InitProfiles /\ [][NextProfiles]_vars

InitFrame == FR_Init /\ Main_Idle /\ Call_Idle
NextFrame ==
    \/ FD_Apply /\ UNCHANGED <<fc_vars, main_vars, call_vars>>
    \/ FR_Cooldown /\ UNCHANGED <<fd_vars, main_vars, call_vars>>
SpecFrame == InitFrame /\ [][NextFrame]_vars

Init == Main_Init /\ FD_Idle /\ FC_Idle /\ Call_Idle
Next ==
    \/ Initialize /\ UNCHANGED <<fd_vars, fc_vars, call_vars>>
    \/ LoadContacts /\ UNCHANGED <<fd_vars, fc_vars, call_vars>>
    \/ ScrapeKeyword /\ UNCHANGED <<fd_vars, fc_vars, call_vars>>
    \/ DedupeCompanies /\ UNCHANGED <<fd_vars, fc_vars, call_vars>>
    \/ Transform /\ UNCHANGED <<fd_vars, fc_vars, call_vars>>
    \/ EnrichLead /\ UNCHANGED <<fd_vars, fc_vars, call_vars>>
    \/ EnrichDone /\ UNCHANGED <<fd_vars, fc_vars, call_vars>>
    \/ FilterDuplicatesStep /\ UNCHANGED <<fd_vars, fc_vars, call_vars>>
    \/ FilterCooldownStep /\ UNCHANGED <<fd_vars, fc_vars, call_vars>>
    \/ GenerateSequence /\ UNCHANGED <<fd_vars, fc_vars, call_vars>>
    \/ InsertProspects /\ UNCHANGED <<fd_vars, fc_vars, call_vars>>
    \/ Summary /\ UNCHANGED <<fd_vars, fc_vars, call_vars>>
Spec == Init /\ [][Next]_vars

-----------------------------------------------------------------------------
(* Claims about main() (checked under Spec) *)

\* the employee range Hunter holds for a lead's company
EmployeeRangeOf(lead) == HunterCompanyOf(Get(lead, "company_domain")).employees

\* the five gates, each evaluated on a lead handed to insert_prospects
PassedBrandGate(lead) == ~IsBigCorporate(Chars(Get(lead, "company_name")))
PassedSizeGate(lead) == EmployeeRangeOf(lead) \notin LARGE_COMPANY_RANGES
PassedB2CGate(lead) == Get(lead, "company_type") = "b2b"
PassedDuplicateGate(lead) == ~IsDuplicate(lead, existing_contacts)
PassedCooldownGate(lead) ==
    LET last_contact == DictGet(last_contact_dates, Get(lead, "company_domain"))
    IN TsTruthy(last_contact) =>
          /\ last_contact.tz # "naive"
          /\ ~InCooldown(FromIsoFormat(last_contact), DefaultCooldownDays)

\* C1: every lead handed to insert_prospects has passed every gate: it is not
\* a known large brand, its company has fewer than 500 employees, it is
\* classified B2B, its (domain, email) pair is not stored, and its domain is
\* not inside the cooldown window.
C1_EveryGatePassed ==
    pc = "persist" =>
        \A i \in 1..Len(prospects_with_sequences) :
            LET lead == prospects_with_sequences[i]
            IN /\ PassedBrandGate(lead)
               /\ PassedSizeGate(lead)
               /\ PassedB2CGate(lead)
               /\ PassedDuplicateGate(lead)
               /\ PassedCooldownGate(lead)

\* the position of a stage in StageOrder
StageIndex(stage) == CHOOSE k \in 1..Len(StageOrder) : StageOrder[k] = stage

\* main() has entered the stage
Entered(stage) == \E k \in 1..Len(stage_log) : stage_log[k] = stage

\* C2: the stages are entered in the fixed order, none skipped, and a stage is
\* entered only when the stage before it has produced its whole output: all
\* keywords scraped, all jobs deduplicated and transformed, every lead of the
\* batch enriched, filtered, and given its sequence.
C2_StagesInOrderOnCompleteBatches ==
    /\ Len(stage_log) <= Len(StageOrder)
    /\ stage_log = SubSeq(StageOrder, 1, Len(stage_log))
    /\ Entered("company_name_dedupe") => kw = Len(Keywords) + 1
    /\ Entered("transform") => unique_jobs = UniqueJobsLoop(all_jobs, 1, {}, <<>>)
    /\ Entered("enrich") => Len(leads) = Len(SliceTo(unique_jobs, count * Len(Keywords)))
    /\ Entered("identity_dedupe") =>
          /\ li = Len(leads) + 1
          /\ Len(enriched_leads) + b2c_skipped + no_email_found <= Len(leads)
    /\ Entered("cooldown_filter") =>
          Len(new_leads) = Len(FilterDuplicates(enriched_leads, existing_contacts))
    /\ Entered("generate_sequence") => Len(ready_leads) <= Len(new_leads)
    /\ Entered("persist") =>
          /\ gi = Len(ready_leads) + 1
          /\ Len(prospects_with_sequences) = Len(ready_leads)

\* a run that went through every stage with a batch of two leads
C2_Witness ==
    /\ pc = "done"
    /\ exit_status = "0"
    /\ stage_log = StageOrder
    /\ Len(ready_leads) = 2
    /\ inserted = 2

\* the batch a stage hands on, for the stages from scrape to cooldown_filter
OutputOf(stage) ==
    CASE stage = "scrape" -> all_jobs
      [] stage = "company_name_dedupe" -> unique_jobs
      [] stage = "transform" -> leads
      [] stage = "enrich" -> enriched_leads
      [] stage = "identity_dedupe" -> new_leads
      [] OTHER -> ready_leads

BatchStages == {"scrape", "company_name_dedupe", "transform", "enrich",
                "identity_dedupe", "cooldown_filter"}

\* the stage has run to its end and handed on its batch
Completed(stage) ==
    \/ Len(stage_log) > StageIndex(stage)
    \/ /\ Len(stage_log) = StageIndex(stage)
       /\ pc = "done"
       /\ exit_status # "TypeError"

\* the stage has produced zero leads
ProducedNone(stage) == Completed(stage) /\ OutputOf(stage) = <<>>

\* C3 as stated: once a stage has produced zero leads, no later stage is
\* entered and the run ends with exit status 0.
C3_NoLaterStageStarted ==
    \A stage \in BatchStages :
        ProducedNone(stage) =>
            /\ Len(stage_log) = StageIndex(stage)
            /\ pc = "done" => exit_status = "0"

\* C3 amended: once a stage has produced zero leads, at most the next stage
\* is entered, and only with the empty batch: it processes no lead, calls no
\* collaborator and hands on an empty batch; sequence generation and
\* persistence are never entered, nothing is inserted, and the run ends with
\* exit status 0.
C3_EmptyBatchEndsRun ==
    \A stage \in BatchStages :
        ProducedNone(stage) =>
            /\ Len(stage_log) <= StageIndex(stage) + 1
            /\ \A later \in BatchStages :
                  StageIndex(later) > StageIndex(stage) => OutputOf(later) = <<>>
            /\ StageIndex(stage) <= StageIndex("transform") => "hunter" \notin calls
            /\ ~Entered("generate_sequence")
            /\ ~Entered("persist")
            /\ prospects_with_sequences = <<>>
            /\ inserted = 0
            /\ pc = "done" => exit_status = "0"
            /\ pc # "done" => pc = StageOrder[StageIndex(stage) + 1]

\* a run in which the identity dedupe dropped every enriched lead and that
\* ended after the cooldown filter was given the empty batch
C3_Witness ==
    /\ pc = "done"
    /\ exit_status = "0"
    /\ enriched_leads # <<>>
    /\ new_leads = <<>>
    /\ stage_log[Len(stage_log)] = "cooldown_filter"

\* C4: once the clients are constructed, the run ends at its summary or at a
\* no-leads exit; no exception leaves main().
C4_NoExceptionLeavesRun ==
    pc = "done" =>
        \/ exit_status = "0"
        \/ exit_status = "1" /\ stage_log = <<"init">>

\* C5: with a credential missing, the run ends during initialization with
\* status 1 and no collaborator has been called.
C5_MissingCredentialAborts ==
    (\E c \in Credentials : ~env[c]) =>
        /\ calls = {}
        /\ pc \in {"init", "done"}
        /\ pc = "done" => exit_status = "1"

\* C6: in the enrich loop every lead processed so far is either in the
\* stage's output or counted by one of the two skip counters.
C6_EveryDroppedLeadCounted ==
    Entered("enrich") =>
        li - 1 = Len(enriched_leads) + b2c_skipped + no_email_found

\* C14: no two leads of the batch handed to insert_prospects share a
\* company_domain.
C14_OneLeadPerDomain ==
    pc = "persist" =>
        \A i, j \in 1..Len(prospects_with_sequences) :
            i # j => Get(prospects_with_sequences[i], "company_domain")
                        # Get(prospects_with_sequences[j], "company_domain")

\* a lead of the batch that the enrich loop has left at the B2C check: it
\* has its domain and was given no company_type
C22_ClassifiedB2C(k) ==
    /\ k < li
    /\ Truthy(Get(leads[k], "company_domain"))
    /\ "company_type" \notin DOMAIN leads[k]

C22_AllB2B(list) == \A i \in 1..Len(list) : Get(list[i], "company_type") = "b2b"

\* C22: every lead that is past the B2C check, and so every lead handed to
\* insert_prospects, has company_type "b2b", and a lead classified B2C is
\* in none of the lists that lead to insert_prospects.
C22_OnlyB2BPersisted ==
    /\ C22_AllB2B(enriched_leads) /\ C22_AllB2B(new_leads) /\ C22_AllB2B(ready_leads)
    /\ C22_AllB2B(prospects_with_sequences)
    /\ \A k \in 1..Len(leads) :
          C22_ClassifiedB2C(k) =>
              \A i \in 1..Len(enriched_leads) :
                  Get(enriched_leads[i], "company_name") # Get(leads[k], "company_name")

\* a run that skipped a B2C lead hands another lead to insert_prospects
C22_Witness ==
    /\ pc = "persist"
    /\ b2c_skipped >= 1
    /\ Len(prospects_with_sequences) >= 1

\* the lead has its domain, its email, and a verifier result that counts
\* as verified
C28_Verified(lead) ==
    /\ Truthy(Get(lead, "company_domain"))
    /\ Truthy(Get(lead, "email"))
    /\ \/ Get(lead, "verification_status") = "valid"
       \/ /\ Get(lead, "verification_status") = "accept_all"
          /\ Get(lead, "verification_score") >= 80

C28_AllVerified(list) == \A k \in 1..Len(list) : C28_Verified(list[k])

\* C28: every lead that has left the enrich loop, and so every lead handed
\* to insert_prospects, has a domain, an email and a verifier result that
\* is "valid", or "accept_all" with a score of 80 or more.
C28_EnrichedLeadsVerified ==
    /\ C28_AllVerified(enriched_leads) /\ C28_AllVerified(new_leads)
    /\ C28_AllVerified(ready_leads) /\ C28_AllVerified(prospects_with_sequences)

\* a lead verified as accept_all with the lowest passing score is handed to
\* insert_prospects in a run that dropped another lead
C28_Witness ==
    /\ pc = "persist"
    /\ Len(prospects_with_sequences) < Len(leads)
    /\ \E k \in 1..Len(prospects_with_sequences) :
          /\ Get(prospects_with_sequences[k], "verification_status") = "accept_all"
          /\ Get(prospects_with_sequences[k], "verification_score") = 80

\* the identity pair of the k-th lead handed to insert_prospects
C27_Pair(k) == <<Get(prospects_with_sequences[k], "company_domain"),
                 Get(prospects_with_sequences[k], "email")>>

\* C27: no lead handed to insert_prospects has an identity pair that the
\* table already holds (from an earlier run) or that another lead of the
\* same batch has.
C27_NoPairPersistedTwice ==
    pc = "persist" =>
        /\ \A k \in 1..Len(prospects_with_sequences) :
              C27_Pair(k) \notin {<<r.company_domain, r.email>> : r \in store}
        /\ \A j, k \in 1..Len(prospects_with_sequences) :
              j # k => C27_Pair(j) # C27_Pair(k)

-----------------------------------------------------------------------------
(* Claims about filter_duplicates (checked under SpecFD) *)

\* a field that is there: neither None nor the empty string
Present(x) == x \notin {None, ""}

\* whether some element of the list seq equals x
Occurs(seq, x) == \E j \in 1..Len(seq) : seq[j] = x

C7_Survives(p) ==
    ~(Present(p.company_domain) /\ Present(p.email)
        /\ <<p.company_domain, p.email>> \in fd_existing)

\* C7: filter_duplicates(leads, S) drops a lead if and only if both its
\* company_domain and its email are present and the exact pair
\* (company_domain, email) is a member of S: the output is the batch without
\* exactly those leads, so a lead with a missing field is never removed.
C7_DropIffStoredPair ==
    fd_pc # "input" => fd_result = SelectSeq(fd_profiles, C7_Survives)

\* C7 witness: one call in which a lead was dropped, a lead with a missing
\* field survived although S holds its pair, and a lead survived whose domain
\* differs from a stored one only in case.
C7_Witness ==
    /\ fd_pc = "filtered"
    /\ Len(fd_result) < Len(fd_profiles)
    /\ \/ \E i \in 1..Len(fd_profiles) :
            /\ ~Present(fd_profiles[i].company_domain)
            /\ <<fd_profiles[i].company_domain, fd_profiles[i].email>> \in fd_existing
            /\ Occurs(fd_result, fd_profiles[i])
       \/ \E i \in 1..Len(fd_profiles) :
            /\ fd_profiles[i].company_domain = "A.com"
            /\ <<"a.com", fd_profiles[i].email>> \in fd_existing
            /\ Occurs(fd_result, fd_profiles[i])

C8_PartialKey(p) == ~Present(p.company_domain) \/ ~Present(p.email)

\* C8 as stated: the second application, with S extended by the identity
\* pairs of the first output, returns the empty list.
C8_SecondPassEmpty ==
    fd_pc = "refiltered" => fd_result2 = <<>>

\* C8 (amended): the second application, with S extended by the identity
\* pairs of the first output, returns exactly the leads of the batch whose
\* company_domain or email is missing, in input order; it is empty when
\* every lead of the batch has both fields.
C8_SecondPassKeepsOnlyPartialKeys ==
    fd_pc = "refiltered" => fd_result2 = SelectSeq(fd_profiles, C8_PartialKey)

\* C8 witness: a lead that survived the first application is removed by the
\* second one, while a lead with a missing field survives both.
C8_Witness ==
    /\ fd_pc = "refiltered"
    /\ Len(fd_result2) < Len(fd_result)
    /\ fd_result2 # <<>>

-----------------------------------------------------------------------------
(* Claims about filter_cooldown (checked under SpecFC) *)

\* the instant a timestamp with a zone part denotes, in UTC hours
UtcInstant(ts) == IF ts.tz = "+01:00" THEN ts.wall - 1 ELSE ts.wall

\* the lead's domain has a last-contact timestamp in the map
HasTimestamp(p) ==
    /\ Present(p.company_domain)
    /\ p.company_domain \in DOMAIN fc_dates
    /\ fc_dates[p.company_domain].tz # "None"

\* now(UTC) - timestamp, in hours, for a lead with a timestamp
Elapsed(p) == Now - UtcInstant(fc_dates[p.company_domain])

Zoned(p) == fc_dates[p.company_domain].tz # "naive"

\* C9 as stated, for the calls that return a list: a lead whose domain has a
\* last-contact timestamp is dropped if and only if the elapsed time is less
\* than or equal to cooldown_days.
C9_DropIffElapsedAtMost ==
    (fc_pc = "filtered" /\ fc_result.exc = "none") =>
        \A i \in 1..Len(fc_profiles) :
            HasTimestamp(fc_profiles[i]) =>
                (~Occurs(fc_result.filtered, fc_profiles[i])
                    <=> Elapsed(fc_profiles[i]) <= fc_days * HoursPerDay)

\* C9 (amended): filter_cooldown drops a lead whose domain has a last-contact
\* timestamp if and only if the elapsed time now(UTC) - timestamp is strictly
\* less than cooldown_days, and keeps it when the elapsed time is greater
\* than or equal to cooldown_days (a contact exactly cooldown_days ago is
\* kept); the call returns this list unless a lead's domain maps to a
\* timestamp without zone part, in which case it raises TypeError.
C9_DropIffElapsedLess ==
    fc_pc = "filtered" =>
        /\ fc_result.exc = "none" =>
              \A i \in 1..Len(fc_profiles) :
                  HasTimestamp(fc_profiles[i]) =>
                      (~Occurs(fc_result.filtered, fc_profiles[i])
                          <=> Elapsed(fc_profiles[i]) < fc_days * HoursPerDay)
        /\ fc_result.exc = "TypeError" <=>
              \E i \in 1..Len(fc_profiles) :
                  HasTimestamp(fc_profiles[i]) /\ ~Zoned(fc_profiles[i])

\* C9 witness: one returned call that kept a lead contacted exactly
\* cooldown_days ago and dropped a lead contacted one hour less than
\* cooldown_days ago.
C9_Witness ==
    /\ fc_pc = "filtered"
    /\ fc_result.exc = "none"
    /\ \E i, j \in 1..Len(fc_profiles) :
          /\ HasTimestamp(fc_profiles[i]) /\ HasTimestamp(fc_profiles[j])
          /\ Elapsed(fc_profiles[i]) = fc_days * HoursPerDay
          /\ Occurs(fc_result.filtered, fc_profiles[i])
          /\ Elapsed(fc_profiles[j]) = fc_days * HoursPerDay - 1
          /\ ~Occurs(fc_result.filtered, fc_profiles[j])

\* C10: filter_cooldown always keeps a lead whose company_domain is absent
\* and a lead whose company_domain has no entry in last_contact_by_domain,
\* whatever cooldown_days is and whatever the map holds for other domains.
C10_KeepsUnmatchable ==
    fc_pc = "filtered" =>
        \A i \in 1..Len(fc_profiles) :
            (~Present(fc_profiles[i].company_domain)
                \/ fc_profiles[i].company_domain \notin DOMAIN fc_dates)
            => Occurs(fc_result.filtered, fc_profiles[i])

\* the set of leads of a list
LeadsOf(seq) == {seq[j] : j \in 1..Len(seq)}

\* C11: for the same batch, map and current time, the leads that survive
\* filter_cooldown with a number of days d2 are among those that survive with
\* any d1 <= d2, and the call raises with d2 exactly when it raises with d1.
C11_SurvivorsShrinkWithDays ==
    fc_pc = "filtered" =>
        \A d2 \in CooldownDayChoices :
            fc_days <= d2 =>
                LET longer == FilterCooldown(fc_profiles, fc_dates, d2)
                IN /\ longer.exc = fc_result.exc
                   /\ LeadsOf(longer.filtered) \subseteq LeadsOf(fc_result.filtered)
                   /\ Len(longer.filtered) <= Len(fc_result.filtered)

\* C11 witness: a returned call with the shorter window that kept a lead
\* which the longer window drops.
C11_Witness ==
    /\ fc_pc = "filtered"
    /\ fc_result.exc = "none"
    /\ fc_days < DefaultCooldownDays
    /\ \E i \in 1..Len(fc_profiles) :
          /\ Occurs(fc_result.filtered, fc_profiles[i])
          /\ ~Occurs(FilterCooldown(fc_profiles, fc_dates, DefaultCooldownDays).filtered,
                     fc_profiles[i])

\* the 'Z'-suffixed equivalent of a timestamp: the same instant written in
\* UTC with the suffix Z; a timestamp without zone part is a UTC reading
ZEquivalent(ts) ==
    CASE ts.tz = "None" -> ts
      [] ts.tz = "+01:00" -> [wall |-> ts.wall - 1, tz |-> "Z"]
      [] OTHER -> [wall |-> ts.wall, tz |-> "Z"]

\* the map with every timestamp replaced by its 'Z'-suffixed equivalent
ZMap(dates) == [d \in DOMAIN dates |-> ZEquivalent(dates[d])]

\* C12: filter_cooldown decides the same with a timestamp T in the map and
\* with T's 'Z'-suffixed equivalent in its place, and the call with the
\* 'Z'-suffixed forms never raises.
C12_SameDecisionWithZ ==
    fc_pc = "filtered" =>
        LET suffixed == FilterCooldown(fc_profiles, ZMap(fc_dates), fc_days)
        IN /\ suffixed.exc = "none"
           /\ fc_result = suffixed

-----------------------------------------------------------------------------
(* Claims about the two filters in a row (checked under SpecFrame) *)

\* s is t with some elements left out: an increasing choice of positions of
\* t gives s
IsSubsequence(s, t) ==
    \E f \in [1..Len(s) -> 1..Len(t)] :
        /\ \A i, j \in 1..Len(s) : i < j => f[i] < f[j]
        /\ \A i \in 1..Len(s) : s[i] = t[f[i]]

\* C13: each filter returns a subsequence of the list it is given: the
\* surviving leads are leads of the input, in input order, none added or
\* repeated, each with every field as it was, and the input list is the same
\* after the call.
C13_OutputIsSubsequence ==
    [][/\ (fd_pc = "input" /\ fd_pc' = "filtered") =>
             /\ fd_profiles' = fd_profiles
             /\ IsSubsequence(fd_result', fd_profiles)
       /\ (fc_pc = "wait" /\ fc_pc' = "filtered") =>
             /\ fd_result' = fd_result
             /\ fc_profiles' = fd_result
             /\ IsSubsequence(fc_result'.filtered, fd_result)]_vars

\* C13 witness: of three leads the second is dropped as a duplicate and the
\* first and third are handed on in that order; the cooldown filter then
\* drops the first and returns the third with its fields.
C13_Witness ==
    /\ fc_pc = "filtered"
    /\ fc_result.exc = "none"
    /\ Len(fd_profiles) = 3
    /\ fd_profiles[1] # fd_profiles[3]
    /\ fd_result = <<fd_profiles[1], fd_profiles[3]>>
    /\ fc_result.filtered = <<fd_profiles[3]>>

-----------------------------------------------------------------------------
(* Claims about get_company_size (checked under SpecSize) *)

\* the tokens that stand for 500 employees and more
C15_LargeTokens ==
    {"501-1K", "1K-5K", "5K-10K", "10K-50K", "50K-100K", "100K+",
     "501-1000", "1001-5000", "5001-10000", "10001+"}

\* C15: is_large_company is true exactly when the lookup answered and the
\* employee-range token is one of the ten tokens of the fixed set; it is
\* false for every other token, an empty or absent one, a missing domain and
\* a failed lookup, and nothing but the token decides it.
C15_LargeIffTokenInSet ==
    call_pc = "returned" =>
        LET answered == /\ Present(call_args.domain)
                        /\ call_args.reply.status = 200
        IN /\ call_result.is_large_company \in BOOLEAN
           /\ call_result.is_large_company
                 <=> (answered /\ call_args.reply.employees \in C15_LargeTokens)
           /\ answered => call_result.employee_range = call_args.reply.employees

\* C15 witness: an answered lookup with a token of the set, classified large
C15_Witness ==
    /\ call_pc = "returned"
    /\ call_args.reply.status = 200
    /\ call_args.reply.employees = "501-1K"
    /\ call_result.is_large_company

-----------------------------------------------------------------------------
(* Claims about is_big_corporate (checked under SpecBrand) *)

\* the entry corp is written in name from position k + 1 on, letter case
\* apart
C16_MatchesAt(name, corp, k) ==
    \A i \in 1..Len(corp) : LowerChar(name[k + i]) = corp[i]

\* C16: is_big_corporate(company_name) is true if and only if the name is
\* neither absent nor empty and some entry of the list is a substring of the
\* lower-cased name.
C16_TrueIffEntryIsSubstring ==
    call_pc = "returned" =>
        LET name == call_args.company_name
        IN call_result <=>
              /\ name # NoChars
              /\ name # <<>>
              /\ \E corp \in BIG_CORPORATES_FALLBACK :
                    \E k \in 0..(Len(name) - Len(corp)) : C16_MatchesAt(name, corp, k)

\* C16 witness: 'Groupe Carrefour France' is found to be a big corporate
C16_Witness ==
    /\ call_pc = "returned"
    /\ call_args.company_name = <<"G", "r", "o", "u", "p", "e", " ", "C", "a", "r", "r", "e", "f", "o", "u", "r", " ", "F", "r", "a", "n", "c", "e">>
    /\ call_result = TRUE

-----------------------------------------------------------------------------
(* Claims about is_b2c_company (checked under SpecB2C) *)

C17_HasData == Present(call_args.industry) \/ Present(call_args.description)

\* the text holds the three characters B2C as they are written
C17_HoldsLiteralB2C(text) ==
    \E k \in 0..(Len(text) - 3) :
        text[k + 1] = "B" /\ text[k + 2] = "2" /\ text[k + 3] = "C"

\* the text holds the three characters in upper or lower case
C17_HoldsB2CAnyCase(text) ==
    \E k \in 0..(Len(text) - 3) :
        text[k + 1] \in {"B", "b"} /\ text[k + 2] = "2" /\ text[k + 3] \in {"C", "c"}

\* what C17 says of the two fail-open cases: without industry and
\* description the collaborator is not called and the reason is 'No data
\* available'; a failed call gives is_b2c false and a reason recording it
C17_FailsOpen ==
    /\ call_result.asked <=> C17_HasData
    /\ ~C17_HasData =>
          call_result.ret = [is_b2c |-> FALSE, reason |-> "No data available"]
    /\ (C17_HasData /\ call_args.reply.raised) =>
          call_result.ret = [is_b2c |-> FALSE, reason |-> "Error"]

\* C17 as stated: is_b2c is true only when there is industry or description,
\* the call succeeded and the reply contains the literal token 'B2C'; the
\* two fail-open cases are as above.
C17_TrueOnlyOnLiteralB2C ==
    call_pc = "returned" =>
        /\ call_result.ret.is_b2c =>
              /\ C17_HasData
              /\ ~call_args.reply.raised
              /\ C17_HoldsLiteralB2C(call_args.reply.text)
        /\ C17_FailsOpen

\* C17 amended: is_b2c is true if and only if there is industry or
\* description, the call succeeded and the reply contains the token B2C in
\* upper or lower case (the reply is upper-cased before the test); the two
\* fail-open cases are as above.
C17_TrueIffB2CAnyCase ==
    call_pc = "returned" =>
        /\ call_result.ret.is_b2c <=>
              /\ C17_HasData
              /\ ~call_args.reply.raised
              /\ C17_HoldsB2CAnyCase(call_args.reply.text)
        /\ C17_FailsOpen

\* C17 witness: a company with an industry is classified B2C on the reply
\* 'B2C', surrounded by whitespace
C17_Witness ==
    /\ call_pc = "returned"
    /\ call_args.industry = "Retail"
    /\ call_args.reply.text = <<" ", "B", "2", "C", "\n">>
    /\ call_result.ret.is_b2c
    /\ call_result.asked

-----------------------------------------------------------------------------
(* Claims about _transform_lead (checked under SpecPayload) *)

\* C18: the record returned has exactly the keys email, first_name,
\* last_name, company_name and custom_fields; custom_fields has a key k of
\* subject_line, email_1, email_1_ps, email_2, email_3 if and only if the
\* lead's value for k is neither absent, None nor the empty string, and the
\* value under k is the lead's.
C18_PayloadOmitsFalsyFields ==
    call_pc = "returned" =>
        LET lead == call_args.lead
            sequence_keys == {"subject_line", "email_1", "email_1_ps", "email_2", "email_3"}
        IN /\ DOMAIN call_result
                 = {"email", "first_name", "last_name", "company_name", "custom_fields"}
           /\ DOMAIN call_result.custom_fields \subseteq sequence_keys
           /\ \A k \in sequence_keys :
                 /\ k \in DOMAIN call_result.custom_fields
                       <=> (k \in DOMAIN lead /\ lead[k] # None /\ lead[k] # "")
                 /\ k \in DOMAIN call_result.custom_fields
                       => call_result.custom_fields[k] = lead[k]

\* C18 witness: a lead with email_2 = "" and the four other sequence fields
\* filled gives custom_fields with those four keys and without email_2
C18_Witness ==
    /\ call_pc = "returned"
    /\ "email_2" \in DOMAIN call_args.lead
    /\ call_args.lead.email_2 = ""
    /\ DOMAIN call_result.custom_fields
          = {"subject_line", "email_1", "email_1_ps", "email_3"}

-----------------------------------------------------------------------------
(* Claims about the transformation into a lead (checked under SpecLead) *)

\* the keys of the raw record a field of the lead is taken from
C19_SourcesOf(kind, field) ==
    IF kind = "job" THEN {field}
    ELSE CASE field = "company_name" -> {"companyName", "currentCompany"}
           [] field = "job_title" -> {"headline", "jobTitle"}
           [] field = "job_url" -> {"profileUrl", "publicIdentifier"}
           [] field = "first_name" -> {"firstName"}
           [] field = "last_name" -> {"lastName"}
           [] field = "linkedin_url" -> {"profileUrl"}
           [] field = "location" -> {"geoLocationName", "geoCountryName"}
           [] OTHER -> {}

\* C19: for a job posting and for a profile, the lead has company_domain
\* with value None, no other field of the lead is None, and every field
\* whose source is absent from the raw record is the empty string.
C19_AbsentFieldsBecomeEmpty ==
    call_pc = "returned" =>
        /\ "company_domain" \in DOMAIN call_result
        /\ call_result.company_domain = None
        /\ \A field \in DOMAIN call_result \ {"company_domain"} :
              /\ call_result[field] # None
              /\ (/\ C19_SourcesOf(call_args.kind, field) # {}
                  /\ C19_SourcesOf(call_args.kind, field) \cap DOMAIN call_args.raw = {})
                    => call_result[field] = ""

-----------------------------------------------------------------------------
(* Claims about add_leads_to_campaign (checked under SpecAdd) *)

RECURSIVE C20_Joined(_)
C20_Joined(requests) ==
    IF requests = <<>> THEN <<>>
    ELSE requests[1].payload.lead_list \o C20_Joined(Tail(requests))

\* the requests are consecutive batches of 1..batch_size leads holding every
\* input lead once, in input order, whichever of them failed
C20_BatchesCoverLeads ==
    call_pc = "returned" =>
        /\ \A k \in 1..Len(call_result.calls) :
              /\ Len(call_result.calls[k].payload.lead_list) \in 1..batch_size
              /\ k < Len(call_result.calls) =>
                    Len(call_result.calls[k].payload.lead_list) = batch_size
        /\ Len(C20_Joined(call_result.calls)) = Len(call_args.leads)
        /\ \A k \in 1..Len(call_args.leads) :
              C20_Joined(call_result.calls)[k] = TransformLead(call_args.leads[k])

\* a batch that ended in an except clause left the four counts as they were
C20_FailedBatchLeavesCounts ==
    call_pc \in {"loop", "returned"} =>
        \A k \in 1..Len(call_result.calls) :
            call_result.calls[k].failed =>
                call_result.calls[k].after = call_result.calls[k].before

\* C20: the leads are sent in consecutive batches of at most 100 that hold
\* every input lead once in input order, a failed batch does not stop the
\* later ones, and a failed batch adds nothing to total, added, duplicates
\* and invalid.
C20_BatchesSentFailuresUncounted ==
    C20_BatchesCoverLeads /\ C20_FailedBatchLeavesCounts

-----------------------------------------------------------------------------
(* Claims about the send-to-campaign entry points (checked under SpecSend) *)

\* the rows of the table a send run is to fetch
C21_Qualifying ==
    {k \in 1..Len(call_args.table) :
        /\ call_args.table[k].status = "ready"
        /\ call_args.table[k].company_type = "b2b"
        /\ call_args.table[k].email_1 # None}

\* C21: a send run whose clients cannot be made, or that finds no
\* qualifying record, ends with a non-zero exit status; with --yes the
\* campaign is called without a confirmation being read.
C21_ExitStatusAndYes ==
    /\ (/\ call_pc = "end"
        /\ \/ \E c \in SendCredentials : ~call_args.env[c]
           \/ C21_Qualifying = {})
          => call_result.exit_status \notin {"running", "0"}
    /\ (call_pc = "end" /\ call_args.yes /\ call_result.prospects # <<>>)
          => call_result.campaign_called /\ ~call_result.input_read

\* the prospects a send run moved from ready to sent
C26_MarkedSent ==
    {call_args.table[k].id :
        k \in {j \in 1..Len(call_args.table) :
                  /\ call_args.table[j].status = "ready"
                  /\ call_result.table[j].status = "sent"}}

\* the prospects the platform added to the campaign
C26_Added ==
    {call_result.prospects[k].id :
        k \in {j \in DOMAIN call_result.outcomes : call_result.outcomes[j] = "added"}}

\* C26: when a send run that called the campaign is over, the prospects it
\* marked sent are exactly those the platform added: none of a failed
\* batch, no duplicate, no invalid one, and every added one.
C26_SentExactlyTheAdded ==
    (call_pc = "end" /\ call_result.campaign_called) => C26_MarkedSent = C26_Added

-----------------------------------------------------------------------------
(* Claims about the data store clients (checked under SpecStore) *)

\* C23: a write of the client leaves every stored row as it was but for its
\* status (created_at, company_domain and email are those of the insert),
\* and an insert stores each prospect with the created_at and the status
\* it was given, the wall clock of the process and "ready" standing in for
\* an absent one.
C23_WritesKeepIdentityAndStamp ==
    [][LET before == call_result.table
           after == call_result'.table
           given == call_result'.given
       IN  /\ Len(after) = Len(before) + Len(given)
           /\ \A k \in 1..Len(before) :
                 after[k] = [before[k] EXCEPT !.status = after[k].status]
           /\ \A k \in 1..Len(given) :
                 LET row == after[Len(before) + k]
                 IN  /\ row.company_domain = Get(given[k], "company_domain")
                     /\ row.email = Get(given[k], "email")
                     /\ IF "created_at" \in DOMAIN given[k]
                        THEN row.created_at = given[k].created_at.wall
                        ELSE \E utcoffset \in LocalOffsets :
                                row.created_at = LocalNow(utcoffset).wall
                     /\ row.status = IF "status" \in DOMAIN given[k]
                                     THEN given[k].status ELSE "ready"]_vars

\* a row inserted with a created_at of its own has had its status updated
C23_Witness ==
    /\ call_pc = "store"
    /\ \E k \in 1..Len(call_result.table) :
          /\ call_result.table[k].status = "replied"
          /\ \A utcoffset \in LocalOffsets :
                call_result.table[k].created_at # LocalNow(utcoffset).wall

\* the stored rows of a domain whose status the lifecycle gives a lead once
\* it has been sent or has reacted
C24_Contacted(domain) ==
    {k \in 1..Len(call_result.table) :
        /\ call_result.table[k].company_domain = domain
        /\ call_result.table[k].status \in contacted_statuses}

C24_StoredDomains ==
    {call_result.table[k].company_domain : k \in 1..Len(call_result.table)} \ {None}

\* C24: the map get_last_contact_dates returns has an entry for a domain
\* exactly when a stored row of the domain has a contacted status, and the
\* entry is the latest created_at of those rows; rows with another status
\* and rows without a domain add nothing.
C24_LatestContactPerDomain ==
    (call_pc = "store" /\ call_result.asked) =>
        /\ DOMAIN call_result.last_contacts =
               {d \in C24_StoredDomains : C24_Contacted(d) # {}}
        /\ \A d \in DOMAIN call_result.last_contacts :
               \E k \in C24_Contacted(d) :
                   /\ call_result.last_contacts[d].wall = call_result.table[k].created_at
                   /\ \A j \in C24_Contacted(d) :
                         call_result.table[j].created_at <= call_result.table[k].created_at

-----------------------------------------------------------------------------
(* Claims about generate_full_sequence (checked under SpecSequence) *)

\* C25: whatever the text generator ends in (JSON, JSON inside other text,
\* text that cannot be parsed, a failed call), generate_full_sequence
\* returns a record with the five fields of a sequence, and it is the
\* static fallback sequence when there is no text or nothing in it parses.
C25_AlwaysASequence ==
    call_pc = "returned" =>
        /\ SequenceFields \subseteq DOMAIN call_result
        /\ (\/ call_args.reply.kind # "text"
            \/ /\ ~JsonLoads(Strip(call_args.reply.text)).ok
               /\ ~JsonLoads(SearchBraces(Strip(call_args.reply.text)).group).ok)
              => call_result = FallbackSequence(call_args.lead)

-----------------------------------------------------------------------------
(* Claims about the deduplication by company name (checked under          *)
(* SpecDedupe)                                                            *)

\* the positions of the input whose job is the first of a non-empty
\* company name
C29_Firsts ==
    {k \in 1..Len(call_args.jobs) :
        /\ "company_name" \in DOMAIN call_args.jobs[k]
        /\ call_args.jobs[k].company_name \notin {None, ""}
        /\ \A j \in 1..(k - 1) :
              "company_name" \in DOMAIN call_args.jobs[j]
                  => call_args.jobs[j].company_name # call_args.jobs[k].company_name}

\* the m-th of those positions
C29_FirstAt(m) ==
    CHOOSE k \in C29_Firsts : Cardinality({j \in C29_Firsts : j <= k}) = m

\* C29: the deduplicated list is made of the first job of each distinct
\* non-empty company name, in input order: no two of its jobs share a
\* name, and no job without a name is in it.
C29_FirstJobOfEachCompany ==
    call_pc = "returned" =>
        /\ Len(call_result) = Cardinality(C29_Firsts)
        /\ \A m \in 1..Len(call_result) : call_result[m] = call_args.jobs[C29_FirstAt(m)]
        /\ \A m, n \in 1..Len(call_result) :
              m # n => call_result[m].company_name # call_result[n].company_name

\* two jobs of one company with a nameless job between them: the first is
\* kept, alone
C29_Witness ==
    /\ call_pc = "returned"
    /\ Len(call_args.jobs) = 3
    /\ Get(call_args.jobs[1], "company_name") = "Acme"
    /\ "company_name" \notin DOMAIN call_args.jobs[2]
    /\ Get(call_args.jobs[3], "company_name") = "Acme"
    /\ call_args.jobs[3] # call_args.jobs[1]
    /\ call_result = <<call_args.jobs[1]>>

-----------------------------------------------------------------------------
(* Claims about filter_profiles (checked under SpecProfiles) *)

\* the k-th profile has no company name, or one that is on the list
C30_StoppedByList(k) ==
    \/ ~Truthy(ProfileCompanyName(call_args.profiles[k]))
    \/ IsBigCorporate(Chars(ProfileCompanyName(call_args.profiles[k])))

\* C30: no call to the enricher is made for a profile without a company
\* name or with a name on the list, such a profile is not in the output,
\* and every call to the enricher is made for a profile that is past the
\* list check.
C30_ListCheckBeforeEnricher ==
    /\ \A k \in 1..(call_result.pi - 1) :
          C30_StoppedByList(k) =>
              /\ \A c \in 1..Len(call_result.asked) : call_result.asked[c].for # k
              /\ \A m \in 1..Len(call_result.filtered) :
                    call_result.filtered[m] # call_args.profiles[k]
    /\ \A c \in 1..Len(call_result.asked) :
          ~C30_StoppedByList(call_result.asked[c].for)

\* a run with an enricher over two profiles: one on the list, for which
\* nothing was asked, and one for which the enricher was asked
C30_Witness ==
    /\ call_pc = "returned"
    /\ call_args.email_enricher
    /\ call_result.stats.big_corporate_list = 1
    /\ Len(call_result.asked) = 2
    /\ Len(call_result.filtered) = 1

====
